---- MODULE Spec2Model ----
(***************************************************************************)
(* Row classification and normalisation pipeline of RRReportProcessor.js:  *)
(* cleanAndProcessData and the helpers it calls, over grids of JavaScript  *)
(* cell values, and the dashboard component around it: file selection,    *)
(* processFile, filtering, sorting and export.                             *)
(*                                                                         *)
(* A JavaScript value is a record [t, s, n]: t is its type tag, s the      *)
(* characters of a string (a sequence of one-character strings), n the     *)
(* number.  Numbers are kept in hundredths (Num(120000) is 1200, Num(50)   *)
(* is 0.5); instants are hours of local time since 1970-01-01 00:00.       *)
(***************************************************************************)
EXTENDS Integers, Sequences, FiniteSets, TLC

VARIABLES
    jsonData,      \* the grid handed to cleanAndProcessData (rows of cells)
    i,             \* the loop index of cleanAndProcessData
    cleanedUnits,  \* the records pushed so far
    pc,            \* "loop" | "done" (returned) | "threw" (TypeError escaped)
    now,           \* the wall clock, in hours
    srcIndex,      \* history: the grid index each record came from
    clockReads,    \* history: what new Date() returned for each record
    file,          \* useState: the selected file, or NoFile
    processing,    \* useState: a processFile call is under way
    error,         \* useState: the error message, "" when there is none
    cleanedData,   \* useState: the dataset, NoData for null
    showDashboard, \* useState: the dashboard is shown instead of the upload form
    downloadUrl,   \* useState: the prepared export, NoUrl for null
    filters,       \* useState: the filter settings
    sortConfig,    \* useState: the explicit sort, key "" for null
    calls,         \* the processFile calls awaiting file.arrayBuffer()
    callFile,      \* the `file` argument of the call that runs cleanAndProcessData
    saved,         \* the export the user downloaded last, NoUrl when none
    dataFile,      \* history: the file whose records cleanedData holds
    errorFile,     \* history: the file whose processing set the error
    runs,          \* the number of processFile calls started
    steps          \* the number of operations done on the dashboard

\* The state of the component.
appVars == <<file, processing, error, cleanedData, showDashboard, downloadUrl,
             filters, sortConfig, calls, callFile, saved, dataFile, errorFile,
             runs, steps>>

vars == <<jsonData, i, cleanedUnits, pc, now, srcIndex, clockReads, file,
          processing, error, cleanedData, showDashboard, downloadUrl, filters,
          sortConfig, calls, callFile, saved, dataFile, errorFile, runs, steps>>

----------------------------------------------------------------------------
(* JavaScript values *)

Str(s) == [t |-> "str", s |-> s, n |-> 0]
Num(n) == [t |-> "num", s |-> <<>>, n |-> n]
DateAt(h) == [t |-> "date", s |-> <<>>, n |-> h]
NaN == [t |-> "nan", s |-> <<>>, n |-> 0]
InvalidDate == [t |-> "baddate", s |-> <<>>, n |-> 0]
Null == [t |-> "null", s |-> <<>>, n |-> 0]
Undefined == [t |-> "undef", s |-> <<>>, n |-> 0]
EmptyStr == Str(<<>>)

\* An integer as a JavaScript number.
Int2Num(k) == Num(100 * k)

\* JavaScript evaluates an argument once, before the call: Eval(v, F) is
\* F(v) with v bound to its value.
Eval(v, F(_)) == CHOOSE r \in {F(x) : x \in {v}} : TRUE

SetMax(S) == Eval(S, LAMBDA T : CHOOSE x \in T : \A y \in T : y <= x)
SetMin(S) == Eval(S, LAMBDA T : CHOOSE x \in T : \A y \in T : x <= y)

UpperChars ==
    <<"A","B","C","D","E","F","G","H","I","J","K","L","M",
      "N","O","P","Q","R","S","T","U","V","W","X","Y","Z">>
LowerChars ==
    <<"a","b","c","d","e","f","g","h","i","j","k","l","m",
      "n","o","p","q","r","s","t","u","v","w","x","y","z">>
DigitChars == <<"0","1","2","3","4","5","6","7","8","9">>

IndexOf(char, seq) ==
    Eval(char, LAMBDA c :
        IF \E k \in 1..Len(seq) : seq[k] = c
        THEN CHOOSE k \in 1..Len(seq) : seq[k] = c
        ELSE 0)

IsSpace(c) == c \in {" ", "\t", "\n", "\r"}
IsDigit(c) == IndexOf(c, DigitChars) > 0
IsLetter(c) == IndexOf(c, UpperChars) > 0 \/ IndexOf(c, LowerChars) > 0
DigitVal(c) == IndexOf(c, DigitChars) - 1

\* Boolean coercion: what `x && ...`, `x || ''` and `!x` test.
Truthy(v) ==
    CASE v.t = "str" -> v.s # <<>>
      [] v.t = "num" -> v.n # 0
      [] v.t \in {"date", "baddate"} -> TRUE
      [] OTHER -> FALSE

\* x || ''
OrEmpty(v) == IF Truthy(v) THEN v ELSE EmptyStr

\* String.prototype.trim
trim(str) ==
    Eval(str, LAMBDA s :
        Eval({k \in 1..Len(s) : ~IsSpace(s[k])}, LAMBDA keep :
            IF keep = {} THEN <<>> ELSE SubSeq(s, SetMin(keep), SetMax(keep))))

\* String.prototype.toLowerCase
toLowerCase(str) ==
    Eval(str, LAMBDA s :
        [k \in 1..Len(s) |->
            IF IndexOf(s[k], UpperChars) > 0
            THEN LowerChars[IndexOf(s[k], UpperChars)]
            ELSE s[k]])

\* String.prototype.includes
includes(str, sub) ==
    Eval(str, LAMBDA s :
        {k \in 1..(Len(s) - Len(sub) + 1) : SubSeq(s, k, k + Len(sub) - 1) = sub} # {})

\* String.prototype.split with a one-character separator
RECURSIVE split(_, _)
split(str, sep) ==
    Eval(str, LAMBDA s :
        Eval({j \in 1..Len(s) : s[j] = sep}, LAMBDA at :
            IF at = {} THEN <<s>>
            ELSE <<SubSeq(s, 1, SetMin(at) - 1)>>
                 \o split(SubSeq(s, SetMin(at) + 1, Len(s)), sep)))

\* The decimal digits of a natural number.
RECURSIVE Digits(_)
Digits(nat) ==
    Eval(nat, LAMBDA k :
        IF k < 10 THEN <<DigitChars[k + 1]>>
        ELSE Digits(k \div 10) \o <<DigitChars[(k % 10) + 1]>>)

\* Number.prototype.toString for a number with at most two decimals.
NumToString(num) ==
    Eval(num, LAMBDA n :
        LET a == IF n < 0 THEN -n ELSE n
            whole == Digits(a \div 100)
            frac == a % 100
            fracStr == IF frac = 0 THEN <<>>
                       ELSE IF frac % 10 = 0 THEN <<".">> \o Digits(frac \div 10)
                       ELSE <<".", DigitChars[(frac \div 10) + 1], DigitChars[(frac % 10) + 1]>>
        IN  (IF n < 0 THEN <<"-">> ELSE <<>>) \o whole \o fracStr)

\* The length of the run of decimal digits of s that starts at position k.
DigitRun(str, from) ==
    Eval(<<str, from>>, LAMBDA a :
        SetMax({m \in 0..(Len(a[1]) - a[2] + 1) :
                  \A j \in a[2]..(a[2] + m - 1) : IsDigit(a[1][j])}))

\* The value of the m decimal digits of s that start at position k.
RECURSIVE DigitsValue(_, _, _)
DigitsValue(str, from, count) ==
    Eval(<<str, from, count>>, LAMBDA a :
        IF a[3] = 0 THEN 0
        ELSE 10 * DigitsValue(a[1], a[2], a[3] - 1) + DigitVal(a[1][a[2] + a[3] - 1]))

\* The characters of s from the first one that is not white space.
trimStart(str) ==
    Eval(str, LAMBDA s :
        Eval({k \in 1..Len(s) : ~IsSpace(s[k])}, LAMBDA keep :
            IF keep = {} THEN <<>> ELSE SubSeq(s, SetMin(keep), Len(s))))

\* parseInt(string), radix 10: leading white space, a sign, then the longest
\* run of digits; NaN when there is none.  (A "0x" prefix, which parseInt
\* reads as hexadecimal, is not modelled.)
parseInt(str) ==
    Eval(trimStart(str), LAMBDA u :
        LET signed == u # <<>> /\ u[1] \in {"+", "-"}
            first == IF signed THEN 2 ELSE 1
        IN  Eval(DigitRun(u, first), LAMBDA m :
                IF m = 0 THEN NaN
                ELSE Int2Num(IF signed /\ u[1] = "-"
                             THEN -DigitsValue(u, first, m)
                             ELSE DigitsValue(u, first, m))))

\* parseFloat of a string: leading white space, a sign, digits, and a
\* fraction of which two decimals are kept; NaN when no digit is read.
\* (Exponents and "Infinity" are not modelled.)
parseFloatStr(str) ==
    Eval(trimStart(str), LAMBDA u :
        LET signed == u # <<>> /\ u[1] \in {"+", "-"}
            first == IF signed THEN 2 ELSE 1
        IN  Eval(DigitRun(u, first), LAMBDA m :
                LET dot == first + m <= Len(u) /\ u[first + m] = "."
                IN  Eval(IF dot THEN DigitRun(u, first + m + 1) ELSE 0, LAMBDA f :
                        LET whole == DigitsValue(u, first, m)
                            d1 == IF f >= 1 THEN DigitVal(u[first + m + 1]) ELSE 0
                            d2 == IF f >= 2 THEN DigitVal(u[first + m + 2]) ELSE 0
                            v == 100 * whole + 10 * d1 + d2
                        IN  IF m = 0 /\ f = 0 THEN NaN
                            ELSE Num(IF signed /\ u[1] = "-" THEN -v ELSE v))))

----------------------------------------------------------------------------
(* Dates.  An instant is a number of hours of local time since             *)
(* 1970-01-01 00:00; the code's 1000 * 60 * 60 * 24 ms is DayLength hours.  *)

DayLength == 24

\* Days from 1970-01-01 to the civil date y-m-d (proleptic Gregorian).
DaysFromCivil(y, m, d) ==
    LET yy == IF m <= 2 THEN y - 1 ELSE y
        era == yy \div 400
        yoe == yy - era * 400
        mp == IF m > 2 THEN m - 3 ELSE m + 9
        doy == (153 * mp + 2) \div 5 + d - 1
        doe == yoe * 365 + yoe \div 4 - yoe \div 100 + doy
    IN  era * 146097 + doe - 719468

\* The civil date <<y, m, d>> of a day number.
CivilFromDays(z0) ==
    LET z == z0 + 719468
        era == z \div 146097
        doe == z - era * 146097
        yoe == (doe - doe \div 1460 + doe \div 36524 - doe \div 146096) \div 365
        doy == doe - (365 * yoe + yoe \div 4 - yoe \div 100)
        mp == (5 * doy + 2) \div 153
        d == doy - (153 * mp + 2) \div 5 + 1
        m == IF mp < 10 THEN mp + 3 ELSE mp - 9
        y == yoe + era * 400 + (IF m <= 2 THEN 1 ELSE 0)
    IN  <<y, m, d>>

\* new Date(year, monthIndex, day) of JavaScript numbers: local midnight;
\* a NaN argument gives an Invalid Date, a year 0..99 means 1900 + year,
\* and a month or day out of range carries over.
NewDateYMD(year, monthIndex, day) ==
    Eval(<<year, monthIndex, day>>, LAMBDA a :
        IF a[1].t = "nan" \/ a[2].t = "nan" \/ a[3].t = "nan" THEN InvalidDate
        ELSE LET y0 == a[1].n \div 100
                 y1 == IF y0 >= 0 /\ y0 <= 99 THEN 1900 + y0 ELSE y0
                 mi == a[2].n \div 100
                 y == y1 + (mi \div 12)
                 m == (mi % 12) + 1
             IN  DateAt(DayLength * (DaysFromCivil(y, m, 1) + (a[3].n \div 100) - 1)))

MonthNames ==
    << <<"J","a","n">>, <<"F","e","b">>, <<"M","a","r">>, <<"A","p","r">>,
       <<"M","a","y">>, <<"J","u","n">>, <<"J","u","l">>, <<"A","u","g">>,
       <<"S","e","p">>, <<"O","c","t">>, <<"N","o","v">>, <<"D","e","c">> >>
DayNames ==
    << <<"T","h","u">>, <<"F","r","i">>, <<"S","a","t">>, <<"S","u","n">>,
       <<"M","o","n">>, <<"T","u","e">>, <<"W","e","d">> >>

Pad2(k) == IF k < 10 THEN <<"0">> \o Digits(k) ELSE Digits(k)

\* Date.prototype.toString: "Www Mmm DD YYYY HH:00:00 GMT" (the zone suffix
\* of the host is left out; it holds no slash).
DateToString(h) ==
    LET days == h \div DayLength
    IN  Eval(CivilFromDays(days), LAMBDA c :
        DayNames[(days % 7) + 1] \o <<" ">> \o MonthNames[c[2]] \o <<" ">>
        \o Pad2(c[3]) \o <<" ">> \o Digits(c[1]) \o <<" ">>
        \o Pad2(h % DayLength) \o <<":","0","0",":","0","0"," ","G","M","T">>)

\* x.toString()
toString(val) ==
    Eval(val, LAMBDA v :
    CASE v.t = "str" -> v.s
      [] v.t = "num" -> NumToString(v.n)
      [] v.t = "nan" -> <<"N","a","N">>
      [] v.t = "date" -> DateToString(v.n)
      [] v.t = "baddate" -> <<"I","n","v","a","l","i","d"," ","D","a","t","e">>
      [] v.t = "null" -> <<"n","u","l","l">>
      [] OTHER -> <<"u","n","d","e","f","i","n","e","d">>)

\* parseFloat(x): of the string x converts to.
parseFloat(v) == parseFloatStr(toString(v))

AllDigits(s) == s # <<>> /\ \A k \in 1..Len(s) : IsDigit(s[k])

\* new Date(x) for a value that is not a Date: a number is an instant in
\* milliseconds; a string is read by Date.parse, of which the form
\* "M/D/YYYY" (local midnight) is modelled, every other string of the
\* model's cells being one no engine reads as a date.
NewDateOf(v) ==
    CASE v.t = "num" -> DateAt((v.n \div 100) \div 3600000)
      [] v.t = "str" ->
            Eval(split(trim(v.s), "/"), LAMBDA parts :
                IF Len(parts) = 3 /\ \A k \in 1..3 : AllDigits(parts[k])
                THEN Eval(<<DigitsValue(parts[1], 1, Len(parts[1])),
                            DigitsValue(parts[2], 1, Len(parts[2])),
                            DigitsValue(parts[3], 1, Len(parts[3]))>>, LAMBDA mdy :
                        IF mdy[1] \in 1..12 /\ mdy[2] \in 1..31 /\ mdy[3] >= 100
                        THEN DateAt(DayLength * (DaysFromCivil(mdy[3], mdy[1], 1) + mdy[2] - 1))
                        ELSE InvalidDate)
                ELSE InvalidDate)
      [] OTHER -> InvalidDate

\* Math.ceil(a / b) for integers, b > 0.
CeilDiv(a, b) == -((-a) \div b)

\* Math.ceil((date - today) / (1000 * 60 * 60 * 24)): NaN for an Invalid Date.
DiffDays(date, today) ==
    IF date.t = "date" THEN Int2Num(CeilDiv(date.n - today, DayLength)) ELSE NaN

----------------------------------------------------------------------------
(* The helpers of the component *)

\* parseDate (lines 150-167): null unless the trimmed text has exactly three
\* slash-separated parts; then new Date(year, month - 1, day) of their
\* parseInt values, an Invalid Date when one of them is NaN.
parseDate(dateStr) ==
    IF ~Truthy(dateStr) THEN Null
    ELSE Eval(trim(toString(dateStr)), LAMBDA trimmed :
            IF trimmed = <<>> THEN Null
            ELSE Eval(split(trimmed, "/"), LAMBDA parts :
                    IF Len(parts) = 3
                    THEN Eval(parseInt(parts[1]), LAMBDA month :
                            NewDateYMD(parseInt(parts[3]),
                                       IF month.t = "nan" THEN NaN ELSE Num(month.n - 100),
                                       parseInt(parts[2])))
                    ELSE Null))

\* Faulty variant of extractPropertyFromUnitType: the leading zeros stay.
extractPropertyKeepsZeros(unitType) ==
    IF ~Truthy(unitType) THEN <<>>
    ELSE Eval(trim(toString(unitType)), LAMBDA trimmed :
            Eval(DigitRun(trimmed, 1), LAMBDA d :
                Eval(SetMax({m \in 0..(Len(trimmed) - d) :
                               \A j \in (d + 1)..(d + m) : IsLetter(trimmed[j])}), LAMBDA l :
                    IF d >= 1 /\ l >= 1 THEN SubSeq(trimmed, 1, d + l) ELSE <<>>)))

\* extractPropertyFromUnitType (lines 169-177): /^0+/ removed, then the
\* match of /^(\d+[a-z]+)/i, or ''.
extractPropertyFromUnitType(unitType) ==
    IF ~Truthy(unitType) THEN <<>>
    ELSE Eval(trim(toString(unitType)), LAMBDA trimmed :
            Eval(SubSeq(trimmed,
                        SetMax({m \in 0..Len(trimmed) : \A j \in 1..m : trimmed[j] = "0"}) + 1,
                        Len(trimmed)), LAMBDA withoutLeadingZeros :
                Eval(DigitRun(withoutLeadingZeros, 1), LAMBDA d :
                    Eval(SetMax({m \in 0..(Len(withoutLeadingZeros) - d) :
                                   \A j \in (d + 1)..(d + m) :
                                      IsLetter(withoutLeadingZeros[j])}), LAMBDA l :
                        IF d >= 1 /\ l >= 1
                        THEN SubSeq(withoutLeadingZeros, 1, d + l)
                        ELSE <<>>))))

kwDevelopment == <<"d","e","v","e","l","o","p","m","e","n","t">>
kwModel == <<"m","o","d","e","l">>
kwHold == <<"h","o","l","d">>
kwDown == <<"d","o","w","n">>
sYes == <<"y","e","s">>
sTotal == <<"t","o","t","a","l">>

\* unit.futureMoveInDate && unit.futureMoveInDate.toString().trim() !== ''
hasMoveinDate(unit) ==
    Truthy(unit.futureMoveInDate) /\ trim(toString(unit.futureMoveInDate)) # <<>>

\* unit.actualReadyDate && unit.actualReadyDate !== '' && unit.actualReadyDate !== null
hasActualReadyDate(unit) ==
    /\ Truthy(unit.actualReadyDate)
    /\ unit.actualReadyDate # EmptyStr
    /\ unit.actualReadyDate # Null

\* Faulty variant of dayBucket: a NaN diffDays falls out of the three buckets.
dayBucketNaNUndefined(diff) ==
    IF diff.t # "num" THEN "undefined"
    ELSE IF diff.n <= 30 * 100 THEN "Available in Next 30 Days"
    ELSE IF diff.n <= 60 * 100 THEN "Available in Next 31-60 Days"
    ELSE "Available in More than 60 Days"

\* Faulty variant of dayBucket: the first bucket ends before day 30.
dayBucketStrict(diff) ==
    IF diff.t = "num" /\ diff.n < 30 * 100 THEN "Available in Next 30 Days"
    ELSE IF diff.t = "num" /\ diff.n <= 60 * 100 THEN "Available in Next 31-60 Days"
    ELSE "Available in More than 60 Days"

\* The day bucket of rule 4 (lines 219-224); a NaN diffDays fails both tests.
dayBucket(diff) ==
    Eval(diff, LAMBDA diffDays :
    IF diffDays.t = "num" /\ diffDays.n <= 30 * 100 THEN "Available in Next 30 Days"
    ELSE IF diffDays.t = "num" /\ diffDays.n <= 60 * 100 THEN "Available in Next 31-60 Days"
    ELSE "Available in More than 60 Days")

\* Faulty variant of categorizeUnit: the move-in rule is tried before the
\* keyword rule.
categorizeUnitRentedFirst(unit, today) ==
    IF unit.rentalType.t # "str" \/ unit.comments.t # "str" THEN "TypeError"
    ELSE IF hasMoveinDate(unit) THEN "Already Rented"
    ELSE Eval(<<toLowerCase(unit.rentalType.s), toLowerCase(unit.comments.s)>>, LAMBDA lc :
         IF \/ includes(lc[1], kwDevelopment) \/ includes(lc[1], kwModel)
            \/ includes(lc[1], kwHold) \/ includes(lc[1], kwDown)
            \/ includes(lc[2], kwDevelopment) \/ includes(lc[2], kwHold)
            \/ includes(lc[2], kwModel) \/ includes(lc[2], kwDown)
         THEN "Down/Hold/Model/Development"
         ELSE IF unit.rentReady = Str(sYes)
              THEN IF hasActualReadyDate(unit)
                   THEN "Available & Rent Ready"
                   ELSE "Available & Rent Ready (Flagged)"
         ELSE IF Truthy(unit.estimatedReadyDate)
              THEN dayBucket(DiffDays(unit.estimatedReadyDate, today))
         ELSE "Unknown")

\* categorizeUnit (lines 190-228), `today` being what new Date() returned.
\* "TypeError" stands for the exception of calling toLowerCase on a
\* rentalType or comments that is not a string.
categorizeUnit(unit, today) ==
    IF unit.rentalType.t # "str" \/ unit.comments.t # "str" THEN "TypeError"
    ELSE Eval(<<toLowerCase(unit.rentalType.s), toLowerCase(unit.comments.s)>>, LAMBDA lc :
         LET rentalType == lc[1]
             comments == lc[2]
         IN  IF \/ includes(rentalType, kwDevelopment) \/ includes(rentalType, kwModel)
                \/ includes(rentalType, kwHold) \/ includes(rentalType, kwDown)
                \/ includes(comments, kwDevelopment) \/ includes(comments, kwHold)
                \/ includes(comments, kwModel) \/ includes(comments, kwDown)
             THEN "Down/Hold/Model/Development"
             ELSE IF hasMoveinDate(unit) THEN "Already Rented"
             ELSE IF unit.rentReady = Str(sYes)
                  THEN IF hasActualReadyDate(unit)
                       THEN "Available & Rent Ready"
                       ELSE "Available & Rent Ready (Flagged)"
             ELSE IF Truthy(unit.estimatedReadyDate)
                  THEN dayBucket(DiffDays(unit.estimatedReadyDate, today))
             ELSE "Unknown")

\* Faulty variant of getUnitStatus: a flagged ready unit counts as ready.
getUnitStatusFlaggedReady(unit) ==
    IF unit.category = "Already Rented" THEN "Rented"
    ELSE IF unit.category = "Down/Hold/Model/Development" THEN "Not Available"
    ELSE IF unit.category \in {"Available & Rent Ready", "Available & Rent Ready (Flagged)"}
         THEN "Ready Now"
    ELSE "Future"

\* getUnitStatus (lines 230-235)
getUnitStatus(unit) ==
    IF unit.category = "Already Rented" THEN "Rented"
    ELSE IF unit.category = "Down/Hold/Model/Development" THEN "Not Available"
    ELSE IF unit.category = "Available & Rent Ready" THEN "Ready Now"
    ELSE "Future"

\* Faulty variant of calculateDaysUntilReady: the actual ready date is never
\* used.
calculateDaysUntilReadyEstimatedOnly(unit, today) ==
    IF ~Truthy(unit.estimatedReadyDate) THEN Null
    ELSE DiffDays(unit.estimatedReadyDate, today)

\* calculateDaysUntilReady (lines 237-261), `today` being what new Date()
\* returned.
calculateDaysUntilReady(unit, today) ==
    IF unit.rentReady = Str(sYes) /\ hasActualReadyDate(unit)
    THEN IF unit.actualReadyDate.t \in {"date", "baddate"}
         THEN DiffDays(unit.actualReadyDate, today)
         ELSE Eval(NewDateOf(unit.actualReadyDate), LAMBDA actualDate :
                  IF actualDate.t = "baddate"
                  THEN IF ~Truthy(unit.estimatedReadyDate) THEN Null
                       ELSE DiffDays(unit.estimatedReadyDate, today)
                  ELSE DiffDays(actualDate, today))
    ELSE IF ~Truthy(unit.estimatedReadyDate) THEN Null
         ELSE DiffDays(unit.estimatedReadyDate, today)

\* Faulty variant of checkForIssues: the move-in date is not trimmed.
checkForIssuesUntrimmed(unit) ==
    IF unit.rentReady = Str(sYes) /\ ~hasActualReadyDate(unit) THEN TRUE
    ELSE IF unit.futureMoveInDate # EmptyStr /\ unit.rentReady # Str(sYes) THEN TRUE
    ELSE IF unit.category = "Down/Hold/Model/Development" /\ unit.rentReady = Str(sYes) THEN TRUE
    ELSE FALSE

\* Faulty variant of checkForIssues: a rent-ready unit without actual ready
\* date is not reported.
checkForIssuesNoReadyCheck(unit) ==
    IF hasMoveinDate(unit) /\ unit.rentReady # Str(sYes) THEN TRUE
    ELSE IF unit.category = "Down/Hold/Model/Development" /\ unit.rentReady = Str(sYes) THEN TRUE
    ELSE FALSE

\* checkForIssues (lines 263-285)
checkForIssues(unit) ==
    LET isDownHoldModel == unit.category = "Down/Hold/Model/Development"
    IN  IF unit.rentReady = Str(sYes) /\ ~hasActualReadyDate(unit) THEN TRUE
        ELSE IF hasMoveinDate(unit) /\ unit.rentReady # Str(sYes) THEN TRUE
        ELSE IF isDownHoldModel /\ unit.rentReady = Str(sYes) THEN TRUE
        ELSE FALSE

----------------------------------------------------------------------------
(* cleanAndProcessData (lines 287-344), one loop iteration at a time *)

\* for (let i = 6; ...)
LoopStart == 6

\* row[k], undefined past the end of the row
Cell(row, k) == IF k + 1 <= Len(row) THEN row[k + 1] ELSE Undefined

\* (row[0] || '').toString().trim()
firstCellOf(row) == trim(toString(OrEmpty(Cell(row, 0))))

\* row.some(cell => cell && cell.toString().trim() !== '')
rowHasContent(row) ==
    {k \in 1..Len(row) : Truthy(row[k]) /\ trim(toString(row[k])) # <<>>} # {}

\* firstCell.match(/^\s*[A-Z0-9-]+\s*$/i)
matchesUnitCode(firstCell) ==
    Eval(trim(firstCell), LAMBDA core :
        /\ core # <<>>
        /\ \A k \in 1..Len(core) : IsLetter(core[k]) \/ IsDigit(core[k]) \/ core[k] = "-")

\* x && x.toString().trim() !== ''
nonBlank(v) == Truthy(v) /\ trim(toString(v)) # <<>>

\* hasUnitData (lines 301-303)
hasUnitData(row) ==
    /\ nonBlank(Cell(row, 1))
    /\ IF nonBlank(Cell(row, 2)) THEN TRUE
       ELSE /\ Truthy(Cell(row, 8))
            /\ parseFloat(Cell(row, 8)).t = "num"
            /\ parseFloat(Cell(row, 8)).n > 0

\* Whether the loop body reaches the construction of unitData for the row.
isUnitRow(row) ==
    /\ rowHasContent(row)
    /\ ~includes(toLowerCase(firstCellOf(row)), sTotal)
    /\ matchesUnitCode(firstCellOf(row))
    /\ hasUnitData(row)

\* parseFloat(row[8]) || 0
askingRentOf(cell) ==
    Eval(parseFloat(cell), LAMBDA r : IF Truthy(r) THEN r ELSE Num(0))

\* unitData as constructed at lines 311-332
unitDataOf(row) ==
    [ unitCode |-> Str(firstCellOf(row)),
      unitType |-> OrEmpty(Cell(row, 1)),
      unitDescription |-> OrEmpty(Cell(row, 2)),
      rentalType |-> OrEmpty(Cell(row, 3)),
      vacantAsOf |-> OrEmpty(Cell(row, 4)),
      vacateType |-> OrEmpty(Cell(row, 5)),
      futureMoveInDate |-> OrEmpty(Cell(row, 6)),
      workOrder |-> OrEmpty(Cell(row, 7)),
      askingRent |-> askingRentOf(Cell(row, 8)),
      makeReadyNotes |-> OrEmpty(Cell(row, 9)),
      estimatedReadyDate |-> parseDate(Cell(row, 10)),
      rentReady |-> Str(toLowerCase(toString(OrEmpty(Cell(row, 11))))),
      actualReadyDate |-> OrEmpty(Cell(row, 12)),
      jobCode |-> OrEmpty(Cell(row, 13)),
      comments |-> OrEmpty(Cell(row, 14)),
      property |-> Str(extractPropertyFromUnitType(Cell(row, 1))),
      category |-> "",
      status |-> "",
      daysUntilReady |-> Num(0),
      hasIssues |-> FALSE ]

\* Lines 334-337: the four derived fields, in the order the code sets them;
\* t1 and t2 are the clock readings of categorizeUnit and of
\* calculateDaysUntilReady.  Each intermediate record is bound to its value
\* once, as the code's assignments to unitData are.
withDerived(unitData, t1, t2) ==
    CHOOSE u4 \in
        { [u3 EXCEPT !.hasIssues = checkForIssues(u3)] :
            u3 \in { [u2 EXCEPT !.daysUntilReady = calculateDaysUntilReady(u2, t2)] :
                u2 \in { [u1 EXCEPT !.status = getUnitStatus(u1)] :
                    u1 \in { [u0 EXCEPT !.category = categorizeUnit(u0, t1)] :
                        u0 \in {unitData} } } } } : TRUE

\* The row at the loop index.
CurrentRow == jsonData[i + 1]

\* The clock moves on by at most MaxClockStep hours between two readings.
MaxClockStep == 1

\* An iteration that ends in `continue`, or whose row is no unit row.
SkipRow ==
    /\ pc = "loop"
    /\ i < Len(jsonData)
    /\ ~isUnitRow(CurrentRow)
    /\ i' = i + 1
    /\ UNCHANGED <<jsonData, cleanedUnits, pc, now, srcIndex, clockReads>>
    /\ UNCHANGED appVars

\* The record of a unit row: unitData with its derived fields.
unitOf(row, t1, t2) == withDerived(unitDataOf(row), t1, t2)

\* Whether categorizeUnit throws for the row's unitData.
throwsOn(row, t1) ==
    {u \in {unitDataOf(row)} : categorizeUnit(u, t1) = "TypeError"} # {}

\* Faulty variant of PushRow: the record is put in front of the earlier ones.
PushRowFront ==
    /\ pc = "loop"
    /\ i < Len(jsonData)
    /\ isUnitRow(CurrentRow)
    /\ \E d1, d2 \in 0..MaxClockStep :
          /\ ~throwsOn(CurrentRow, now + d1)
          /\ cleanedUnits' = <<unitOf(CurrentRow, now + d1, now + d1 + d2)>> \o cleanedUnits
          /\ srcIndex' = <<i>> \o srcIndex
          /\ clockReads' = <<<<now + d1, now + d1 + d2>>>> \o clockReads
          /\ now' = now + d1 + d2
    /\ i' = i + 1
    /\ UNCHANGED <<jsonData, pc>>
    /\ UNCHANGED appVars

\* An iteration that pushes a record.
PushRow ==
    /\ pc = "loop"
    /\ i < Len(jsonData)
    /\ isUnitRow(CurrentRow)
    /\ \E d1, d2 \in 0..MaxClockStep :
          /\ ~throwsOn(CurrentRow, now + d1)
          /\ cleanedUnits' = Append(cleanedUnits, unitOf(CurrentRow, now + d1, now + d1 + d2))
          /\ srcIndex' = Append(srcIndex, i)
          /\ clockReads' = Append(clockReads, <<now + d1, now + d1 + d2>>)
          /\ now' = now + d1 + d2
    /\ i' = i + 1
    /\ UNCHANGED <<jsonData, pc>>
    /\ UNCHANGED appVars

\* An iteration in which categorizeUnit throws: the exception leaves
\* cleanAndProcessData, which returns nothing.
ThrowRow ==
    /\ pc = "loop"
    /\ i < Len(jsonData)
    /\ isUnitRow(CurrentRow)
    /\ \E d1 \in 0..MaxClockStep :
          /\ throwsOn(CurrentRow, now + d1)
          /\ now' = now + d1
    /\ pc' = "threw"
    /\ UNCHANGED <<jsonData, i, cleanedUnits, srcIndex, clockReads>>
    /\ UNCHANGED appVars

\* return cleanedUnits
ReturnUnits ==
    /\ pc = "loop"
    /\ i >= Len(jsonData)
    /\ pc' = "done"
    /\ UNCHANGED <<jsonData, i, cleanedUnits, now, srcIndex, clockReads>>
    /\ UNCHANGED appVars

Next == SkipRow \/ PushRow \/ ThrowRow \/ ReturnUnits

----------------------------------------------------------------------------
(* sortedAndFilteredData (lines 678-774) and what it calls *)

\* The characters of the cells, in UTF-16 code order.
AsciiChars ==
    <<" ","#","$","%","&","(",")","*","+",",","-",".","/",
      "0","1","2","3","4","5","6","7","8","9",":",";","=","?","@",
      "A","B","C","D","E","F","G","H","I","J","K","L","M",
      "N","O","P","Q","R","S","T","U","V","W","X","Y","Z","_",
      "a","b","c","d","e","f","g","h","i","j","k","l","m",
      "n","o","p","q","r","s","t","u","v","w","x","y","z">>

\* a < b for two strings: the first differing code unit decides, a proper
\* prefix is smaller.
StringLess(a, b) ==
    Eval(<<a, b>>, LAMBDA p :
        LET common == SetMax({m \in 0..SetMin({Len(p[1]), Len(p[2])}) :
                                 \A j \in 1..m : p[1][j] = p[2][j]})
        IN  IF common = Len(p[1]) THEN common < Len(p[2])
            ELSE IF common = Len(p[2]) THEN FALSE
            ELSE IndexOf(p[1][common + 1], AsciiChars)
                    < IndexOf(p[2][common + 1], AsciiChars))

\* aVal < bVal (lines 742-743) for numbers, null (which counts as 0), NaN
\* (never smaller or greater) and pairs of strings.
jsLess(aVal, bVal) ==
    IF aVal.t = "str" /\ bVal.t = "str" THEN StringLess(aVal.s, bVal.s)
    ELSE IF aVal.t \in {"num", "null"} /\ bVal.t \in {"num", "null"} THEN aVal.n < bVal.n
    ELSE FALSE

kwBedroom == <<"b","e","d","r","o","o","m">>
kwBachelor == <<"b","a","c","h","e","l","o","r">>
kwStudio == <<"s","t","u","d","i","o">>
kwZeroBedroom == <<"0"," ","b","e","d","r","o","o","m">>

\* The position after the run of white space and hyphens that starts at
\* position `from` of str.
SkipSeparators(str, from) ==
    from + SetMax({m \in 0..(Len(str) - from + 1) :
                      \A j \in from..(from + m - 1) : IsSpace(str[j]) \/ str[j] = "-"})

\* desc.match(/(\d+)[\s-]*bedroom/): the positions where a match starts.
BedroomMatches(desc) ==
    {p \in 1..Len(desc) :
        /\ IsDigit(desc[p])
        /\ LET q == SkipSeparators(desc, p + DigitRun(desc, p))
           IN  /\ q + Len(kwBedroom) - 1 <= Len(desc)
               /\ SubSeq(desc, q, q + Len(kwBedroom) - 1) = kwBedroom}

\* extractBedroomCount (lines 179-188) of a description that is a string.
extractBedroomCount(description) ==
    Eval(toLowerCase(description.s), LAMBDA desc :
        Eval(BedroomMatches(desc), LAMBDA starts :
            IF starts # {}
            THEN DigitsValue(desc, SetMin(starts), DigitRun(desc, SetMin(starts)))
            ELSE IF \/ includes(desc, kwBachelor) \/ includes(desc, kwStudio)
                    \/ includes(desc, kwZeroBedroom)
                 THEN 0
                 ELSE 999))

\* categoryOrder[category] || 999 (lines 747-760)
categoryOrder(category) ==
    CASE category = "Available & Rent Ready" -> 1
      [] category = "Available & Rent Ready (Flagged)" -> 2
      [] category = "Available in Next 30 Days" -> 3
      [] category = "Available in Next 31-60 Days" -> 4
      [] category = "Available in More than 60 Days" -> 5
      [] category = "Already Rented" -> 6
      [] category = "Down/Hold/Model/Development" -> 7
      [] category = "Unknown" -> 8
      [] OTHER -> 999

\* Faulty variant of defaultCompare: the rent decides before the bedrooms.
defaultCompareRentFirst(a, b) ==
    IF categoryOrder(a.category) # categoryOrder(b.category)
    THEN categoryOrder(a.category) - categoryOrder(b.category)
    ELSE IF a.askingRent.n # b.askingRent.n
    THEN a.askingRent.n - b.askingRent.n
    ELSE extractBedroomCount(a.unitDescription) - extractBedroomCount(b.unitDescription)

\* The comparator of the default sort (lines 758-770): negative when a sorts
\* first; the rent difference is in hundredths.
defaultCompare(a, b) ==
    IF categoryOrder(a.category) # categoryOrder(b.category)
    THEN categoryOrder(a.category) - categoryOrder(b.category)
    ELSE IF extractBedroomCount(a.unitDescription) # extractBedroomCount(b.unitDescription)
    THEN extractBedroomCount(a.unitDescription) - extractBedroomCount(b.unitDescription)
    ELSE a.askingRent.n - b.askingRent.n

\* a[sortConfig.key] for the columns of the table the model clicks.
sortValue(unit, key) ==
    CASE key = "unitCode" -> unit.unitCode
      [] key = "askingRent" -> unit.askingRent
      [] OTHER -> unit.daysUntilReady

\* Faulty variant of explicitCompare: the direction is not read.
explicitCompareAscending(a, b, sc) ==
    IF jsLess(sortValue(a, sc.key), sortValue(b, sc.key)) THEN -1
    ELSE IF jsLess(sortValue(b, sc.key), sortValue(a, sc.key)) THEN 1
    ELSE 0

\* The comparator of the explicit sort (lines 738-745).
explicitCompare(a, b, sc) ==
    IF jsLess(sortValue(a, sc.key), sortValue(b, sc.key))
    THEN IF sc.direction = "asc" THEN -1 ELSE 1
    ELSE IF jsLess(sortValue(b, sc.key), sortValue(a, sc.key))
    THEN IF sc.direction = "asc" THEN 1 ELSE -1
    ELSE 0

\* The comparator filtered.sort is called with (line 737).
compare(a, b, sc) ==
    IF sc.key # "" THEN explicitCompare(a, b, sc) ELSE defaultCompare(a, b)

\* Array.prototype.sort, which is stable: each element is put behind the
\* last one that does not sort after it.
RECURSIVE sorted(_, _)
sorted(units, sc) ==
    IF Len(units) <= 1 THEN units
    ELSE Eval(<<sorted(SubSeq(units, 1, Len(units) - 1), sc), units[Len(units)]>>, LAMBDA p :
            LET pos == SetMax({0} \cup {k \in 1..Len(p[1]) : compare(p[1][k], p[2], sc) <= 0})
            IN  SubSeq(p[1], 1, pos) \o <<p[2]>> \o SubSeq(p[1], pos + 1, Len(p[1])))

\* The default comparator calls description.toLowerCase() for two units of
\* one category; any sort of the list compares two such units when the list
\* holds them, and the call throws when the description is not a string.
sortThrows(units, sc) ==
    /\ sc.key = ""
    /\ {p \in (1..Len(units)) \X (1..Len(units)) :
           /\ p[1] # p[2]
           /\ categoryOrder(units[p[1]].category) = categoryOrder(units[p[2]].category)
           /\ units[p[1]].unitDescription.t # "str"} # {}


\* Local time minus UTC, in hours, on the host (an eastern North American
\* zone in winter).
LocalMinusUtc == 0 - 5

\* The text YYYY-MM-DD of a day number, as toISOString().split('T')[0]
\* gives it for years of four digits.
IsoDate(days) ==
    Eval(CivilFromDays(days), LAMBDA c :
        Digits(c[1]) \o <<"-">> \o Pad2(c[2]) \o <<"-">> \o Pad2(c[3]))

\* new Date('YYYY-MM-DD'): midnight UTC of that day; an Invalid Date for
\* any other text a date input can hold (the empty string).
NewDateISO(str) ==
    IF /\ Len(str) = 10
       /\ str[5] = "-" /\ str[8] = "-"
       /\ \A k \in {1, 2, 3, 4, 6, 7, 9, 10} : IsDigit(str[k])
    THEN DateAt(DayLength * DaysFromCivil(DigitsValue(str, 1, 4), DigitsValue(str, 6, 2),
                                          DigitsValue(str, 9, 2)) + LocalMinusUtc)
    ELSE InvalidDate

\* What sortedAndFilteredData does: it returns a list, or a TypeError
\* leaves it.
Returned(units) == [threw |-> FALSE, units |-> units]
Threw == [threw |-> TRUE, units |-> <<>>]

\* The fields the search reads, in the order of the || chain (lines 699-704).
searchFields(unit) ==
    <<unit.unitCode, unit.unitDescription, unit.rentalType, unit.makeReadyNotes,
      unit.comments, unit.jobCode>>

\* The callback of the search filter (lines 698-705): the || chain stops at
\* the first field that contains the search text, and toLowerCase throws at
\* the first field before it that is not a string.
searchOutcome(unit, search) ==
    Eval(<<searchFields(unit), toLowerCase(search)>>, LAMBDA p :
        Eval({k \in 1..6 : p[1][k].t # "str" \/ includes(toLowerCase(p[1][k].s), p[2])},
             LAMBDA stops :
                IF stops = {} THEN "false"
                ELSE IF p[1][SetMin(stops)].t # "str" THEN "TypeError"
                ELSE "true"))

\* The rent filter applies (line 708).
rentFilterActive(f) == f.rentMin > 0 \/ f.rentMax < 5000

\* The callback of the rent filter (line 710); askingRent is in hundredths.
rentInRange(unit, f) ==
    unit.askingRent.n >= 100 * f.rentMin /\ unit.askingRent.n <= 100 * f.rentMax

\* dateToCheck of the date-range filter (lines 723-731), Null standing for
\* `return false`.
dateToCheck(unit, dateType) ==
    IF dateType = "actual"
    THEN IF ~Truthy(unit.actualReadyDate) THEN Null
         ELSE IF unit.actualReadyDate.t \in {"date", "baddate"} THEN unit.actualReadyDate
         ELSE NewDateOf(unit.actualReadyDate)
    ELSE IF ~Truthy(unit.estimatedReadyDate) THEN Null
         ELSE unit.estimatedReadyDate

\* The callback of the date-range filter (lines 722-734): a comparison with
\* an Invalid Date is false.
dateInRange(unit, dateRange) ==
    Eval(<<dateToCheck(unit, dateRange.dateType), NewDateISO(dateRange.start),
           NewDateISO(dateRange.end)>>, LAMBDA d :
        /\ d[1].t = "date" /\ d[2].t = "date" /\ d[3].t = "date"
        /\ d[1].n >= d[2].n
        /\ d[1].n <= d[3].n)

\* The filters before the search (lines 683-696).
filteredBeforeSearch(units, f) ==
    Eval(IF f.property # <<>>
         THEN SelectSeq(units, LAMBDA u :
                 includes(toLowerCase(u.property.s), toLowerCase(f.property)))
         ELSE units, LAMBDA a1 :
    Eval(IF f.properties # {}
         THEN SelectSeq(a1, LAMBDA u : u.property.s \in f.properties)
         ELSE a1, LAMBDA a2 :
    Eval(IF f.category # ""
         THEN SelectSeq(a2, LAMBDA u : u.category = f.category)
         ELSE a2, LAMBDA a3 :
    IF f.rentReady # <<>>
    THEN SelectSeq(a3, LAMBDA u : u.rentReady = Str(f.rentReady))
    ELSE a3)))

\* The filters after the search (lines 708-735).
filteredAfterSearch(units, f) ==
    Eval(IF rentFilterActive(f)
         THEN SelectSeq(units, LAMBDA u : rentInRange(u, f))
         ELSE units, LAMBDA a6 :
    Eval(IF f.showFlaggedOnly
         THEN SelectSeq(a6, LAMBDA u : u.hasIssues = TRUE)
         ELSE a6, LAMBDA a7 :
    IF f.dateRange.start # <<>> /\ f.dateRange.end # <<>>
    THEN SelectSeq(a7, LAMBDA u : dateInRange(u, f.dateRange))
    ELSE a7))

\* The list after the filters (lines 680-735), when no callback throws.
filteredList(units, f) ==
    Eval(filteredBeforeSearch(units, f), LAMBDA a4 :
        filteredAfterSearch(IF f.search # <<>>
                            THEN SelectSeq(a4, LAMBDA u : searchOutcome(u, f.search) = "true")
                            ELSE a4, f))

\* A callback of the search filter throws.
searchThrows(units, f) ==
    IF f.search = <<>> THEN FALSE
    ELSE Eval(filteredBeforeSearch(units, f), LAMBDA a4 :
            {k \in 1..Len(a4) : searchOutcome(a4[k], f.search) = "TypeError"} # {})

\* The call of sortedAndFilteredData throws.
callThrows(data, f, sc) ==
    IF data.isNull THEN FALSE
    ELSE IF searchThrows(data.units, f) THEN TRUE
    ELSE sortThrows(filteredList(data.units, f), sc)

\* sortedAndFilteredData (lines 678-774) for the given state.
filteredAndSorted(data, f, sc) ==
    IF data.isNull THEN Returned(<<>>)
    ELSE IF callThrows(data, f, sc) THEN Threw
    ELSE Returned(sorted(filteredList(data.units, f), sc))

\* sortedAndFilteredData() in the current state.
sortedAndFilteredData == filteredAndSorted(cleanedData, filters, sortConfig)

----------------------------------------------------------------------------
(* The state of the component (lines 25-47) *)

\* A file the user can select: a workbook whose first sheet is `grid`, or a
\* file XLSX.read cannot parse.
WorkbookFile(name, grid) == [name |-> name, readable |-> TRUE, grid |-> grid]
CorruptFile(name) == [name |-> name, readable |-> FALSE, grid |-> <<>>]

\* useState(null) of file, cleanedData and downloadUrl
NoFile == [name |-> "", readable |-> FALSE, grid |-> <<>>]
NoData == [isNull |-> TRUE, units |-> <<>>]
NoUrl == [isNull |-> TRUE, rows |-> <<>>]

\* A dataset, and the object URL of an exported grid.
Data(units) == [isNull |-> FALSE, units |-> units]
UrlOf(rows) == [isNull |-> FALSE, rows |-> rows]

\* The initial filters (lines 32-46); rentMin and rentMax are in dollars.
DefaultDateRange == [start |-> <<>>, end |-> <<>>, dateType |-> "estimated"]
DefaultFilters ==
    [ property |-> <<>>,
      properties |-> {},
      category |-> "",
      rentReady |-> <<>>,
      search |-> <<>>,
      rentMin |-> 0,
      rentMax |-> 5000,
      dateRange |-> DefaultDateRange,
      showFlaggedOnly |-> FALSE ]

\* useState({ key: null, direction: 'asc' })
DefaultSort == [key |-> "", direction |-> "asc"]

\* The component while the processFile call for a workbook of the given
\* grid runs cleanAndProcessData: the file was selected, Process clicked.
Processing(grid) ==
    /\ file = WorkbookFile("report", grid)
    /\ processing = TRUE
    /\ error = ""
    /\ cleanedData = NoData
    /\ showDashboard = FALSE
    /\ downloadUrl = NoUrl
    /\ filters = DefaultFilters
    /\ sortConfig = DefaultSort
    /\ calls = {}
    /\ callFile = WorkbookFile("report", grid)
    /\ saved = NoUrl
    /\ dataFile = NoFile
    /\ errorFile = NoFile
    /\ runs = 1
    /\ steps = 0

----------------------------------------------------------------------------
(* exportToExcel (lines 598-654) *)

\* A cell whose text is one of the fixed texts of the code, kept whole.
Text(whole) == Str(<<whole>>)

\* Date.prototype.toLocaleDateString() in the en-US locale: M/D/YYYY.
toLocaleDateString(d) ==
    IF d.t = "baddate"
    THEN <<"I","n","v","a","l","i","d"," ","D","a","t","e">>
    ELSE Eval(CivilFromDays(d.n \div DayLength), LAMBDA c :
            Digits(c[2]) \o <<"/">> \o Digits(c[3]) \o <<"/">> \o Digits(c[1]))

\* The header row of the export (lines 605-610).
exportHeader ==
    << Text("Unit Code"), Text("Unit Type"), Text("Unit Description"), Text("Rental Type"),
       Text("Vacant As Of"), Text("Vacate Type"), Text("Future Move In Date"),
       Text("Work Order"), Text("Asking Rent"), Text("Make Ready Notes"),
       Text("Estimated Ready Date"), Text("Rent Ready"), Text("Actual Ready Date"),
       Text("Job Code"), Text("Comments"), Text("Property"), Text("Category"),
       Text("Status"), Text("Days Until Ready"), Text("Has Issues") >>

\* The row of one unit (lines 611-634).
exportRow(unit) ==
    << unit.unitCode,
       unit.unitType,
       unit.unitDescription,
       unit.rentalType,
       unit.vacantAsOf,
       unit.vacateType,
       unit.futureMoveInDate,
       unit.workOrder,
       unit.askingRent,
       unit.makeReadyNotes,
       IF Truthy(unit.estimatedReadyDate)
       THEN Str(toLocaleDateString(unit.estimatedReadyDate)) ELSE EmptyStr,
       unit.rentReady,
       IF Truthy(unit.actualReadyDate)
       THEN IF unit.actualReadyDate.t \in {"date", "baddate"}
            THEN Str(toLocaleDateString(unit.actualReadyDate))
            ELSE Str(toString(unit.actualReadyDate))
       ELSE EmptyStr,
       unit.jobCode,
       unit.comments,
       unit.property,
       Text(unit.category),
       Text(unit.status),
       unit.daysUntilReady,
       IF unit.hasIssues = TRUE THEN Text("Yes") ELSE Text("No") >>

\* Faulty variant of exportData: hasIssues is written as true or false.
exportDataBoolean(units) ==
    <<exportHeader>> \o
    [k \in 1..Len(units) |->
        [exportRow(units[k]) EXCEPT
            ![20] = IF units[k].hasIssues = TRUE THEN Text("true") ELSE Text("false")]]

\* exportData (lines 604-636) of the list sortedAndFilteredData() returns.
exportData(units) ==
    <<exportHeader>> \o [k \in 1..Len(units) |-> exportRow(units[k])]

\* The grid XLSX.read and sheet_to_json (header: 1, defval: '') give for a
\* workbook written from the rows: a cell written from null is absent and
\* reads as ''.
ReadBack(rows) ==
    [k \in 1..Len(rows) |->
        [c \in 1..Len(rows[k]) |->
            IF rows[k][c].t \in {"null", "undef"} THEN EmptyStr ELSE rows[k][c]]]

\* exportToExcel (lines 598-654) as a function of the state it reads: the
\* value of downloadUrl after the call.
exportToExcel(data, f, sc, url) ==
    IF data.isNull THEN url
    ELSE UrlOf(exportData(filteredAndSorted(data, f, sc).units))

\* The file a saved export is when the user selects it.
ExportFile(url) == WorkbookFile("export", ReadBack(url.rows))

----------------------------------------------------------------------------
(* The handlers of the component *)

\* The loop variables of cleanAndProcessData.
loopVars == <<jsonData, i, cleanedUnits, pc, now, srcIndex, clockReads>>

\* Rendering the dashboard throws: cleanedData.length of null (line 1050),
\* or the call of sortedAndFilteredData() (line 1475).
Crashed ==
    IF ~showDashboard THEN FALSE
    ELSE IF cleanedData.isNull THEN TRUE
    ELSE callThrows(cleanedData, filters, sortConfig)

\* The upload form is on screen (line 977) and no handler is running.
UploadFormShown == pc = "idle" /\ ~showDashboard

\* The dashboard is on screen and no handler is running.
DashboardShown == pc = "idle" /\ showDashboard /\ ~Crashed

\* At most MaxRuns calls of processFile, and MaxSteps changes of the filters
\* or of the sort, are followed.
MaxRuns == 2
MaxSteps == 2

\* handleFileUpload (lines 656-670) with a file chosen.
HandleFileUpload(uploadedFile) ==
    /\ UploadFormShown
    /\ file' = uploadedFile
    /\ error' = ""
    /\ errorFile' = NoFile
    /\ cleanedData' = NoData
    /\ dataFile' = NoFile
    /\ showDashboard' = FALSE
    /\ downloadUrl' = NoUrl
    /\ UNCHANGED <<processing, filters, sortConfig, calls, callFile, saved, runs, steps>>
    /\ UNCHANGED loopVars

\* Faulty variant of HandleProcess: the button is not disabled while a call
\* is processing.
HandleProcessNotDisabled ==
    /\ UploadFormShown
    /\ file # NoFile
    /\ runs < MaxRuns
    /\ processing' = TRUE
    /\ error' = ""
    /\ errorFile' = NoFile
    /\ calls' = calls \cup {file}
    /\ runs' = runs + 1
    /\ UNCHANGED <<file, cleanedData, showDashboard, downloadUrl, filters, sortConfig,
                   callFile, saved, dataFile, steps>>
    /\ UNCHANGED loopVars

\* Faulty variant of HandleProcess: the error of the last attempt is kept.
HandleProcessKeepsError ==
    /\ UploadFormShown
    /\ file # NoFile
    /\ ~processing
    /\ runs < MaxRuns
    /\ processing' = TRUE
    /\ calls' = calls \cup {file}
    /\ runs' = runs + 1
    /\ UNCHANGED <<file, error, errorFile, cleanedData, showDashboard, downloadUrl, filters,
                   sortConfig, callFile, saved, dataFile, steps>>
    /\ UNCHANGED loopVars

\* handleProcess (lines 672-676) behind the Process button (lines 1001-1003),
\* and processFile (lines 346-352) up to its await.
HandleProcess ==
    /\ UploadFormShown
    /\ file # NoFile
    /\ ~processing
    /\ runs < MaxRuns
    /\ processing' = TRUE
    /\ error' = ""
    /\ errorFile' = NoFile
    /\ calls' = calls \cup {file}
    /\ runs' = runs + 1
    /\ UNCHANGED <<file, cleanedData, showDashboard, downloadUrl, filters, sortConfig,
                   callFile, saved, dataFile, steps>>
    /\ UNCHANGED loopVars

\* processFile resumes for a file that is read and parsed (lines 352-361),
\* and calls cleanAndProcessData (line 364).
ReadResolved(c) ==
    /\ pc = "idle"
    /\ c \in calls
    /\ c.readable
    /\ calls' = calls \ {c}
    /\ callFile' = c
    /\ jsonData' = c.grid
    /\ i' = LoopStart
    /\ cleanedUnits' = <<>>
    /\ srcIndex' = <<>>
    /\ clockReads' = <<>>
    /\ pc' = "loop"
    /\ UNCHANGED <<now, file, processing, error, cleanedData, showDashboard, downloadUrl,
                   filters, sortConfig, saved, dataFile, errorFile, runs, steps>>

\* processFile resumes for a file that cannot be read or parsed: catch and
\* finally (lines 370-375).
ReadFailed(c) ==
    /\ pc = "idle"
    /\ c \in calls
    /\ ~c.readable
    /\ calls' = calls \ {c}
    /\ callFile' = c
    /\ error' = "Processing failed: "
    /\ errorFile' = c
    /\ processing' = FALSE
    /\ UNCHANGED <<file, cleanedData, showDashboard, downloadUrl, filters, sortConfig,
                   saved, dataFile, runs, steps>>
    /\ UNCHANGED loopVars

\* cleanAndProcessData returned: lines 366-368 and finally.
ProcessDone ==
    /\ pc = "done"
    /\ cleanedData' = Data(cleanedUnits)
    /\ dataFile' = callFile
    /\ showDashboard' = TRUE
    /\ processing' = FALSE
    /\ pc' = "idle"
    /\ UNCHANGED <<jsonData, i, cleanedUnits, now, srcIndex, clockReads>>
    /\ UNCHANGED <<file, error, downloadUrl, filters, sortConfig, calls, callFile, saved,
                   errorFile, runs, steps>>

\* Faulty variant of ProcessThrew: the dashboard is shown after a failure.
ProcessThrewShowsDashboard ==
    /\ pc = "threw"
    /\ error' = "Processing failed: "
    /\ errorFile' = callFile
    /\ processing' = FALSE
    /\ showDashboard' = TRUE
    /\ pc' = "idle"
    /\ UNCHANGED <<jsonData, i, cleanedUnits, now, srcIndex, clockReads>>
    /\ UNCHANGED <<file, cleanedData, downloadUrl, filters, sortConfig, calls,
                   callFile, saved, dataFile, runs, steps>>

\* cleanAndProcessData threw: catch and finally (lines 370-375).
ProcessThrew ==
    /\ pc = "threw"
    /\ error' = "Processing failed: "
    /\ errorFile' = callFile
    /\ processing' = FALSE
    /\ pc' = "idle"
    /\ UNCHANGED <<jsonData, i, cleanedUnits, now, srcIndex, clockReads>>
    /\ UNCHANGED <<file, cleanedData, showDashboard, downloadUrl, filters, sortConfig, calls,
                   callFile, saved, dataFile, runs, steps>>

\* The Process New File button (line 1083).
ProcessNewFile ==
    /\ DashboardShown
    /\ showDashboard' = FALSE
    /\ UNCHANGED <<file, processing, error, cleanedData, downloadUrl, filters, sortConfig,
                   calls, callFile, saved, dataFile, errorFile, runs, steps>>
    /\ UNCHANGED loopVars

\* setFilters(f) from a control of the dashboard.
SetFilters(f) ==
    /\ steps < MaxSteps
    /\ DashboardShown
    /\ filters' = f
    /\ steps' = steps + 1
    /\ UNCHANGED <<file, processing, error, cleanedData, showDashboard, downloadUrl,
                   sortConfig, calls, callFile, saved, dataFile, errorFile, runs>>
    /\ UNCHANGED loopVars

\* The options of the property controls (lines 1184, 1411) and of the
\* category select (line 1200).
propertyOptions == {cleanedData.units[k].property.s : k \in 1..Len(cleanedData.units)}
categoryOptions == {cleanedData.units[k].category : k \in 1..Len(cleanedData.units)}

\* The controls of the filters (lines 1178, 1194, 1210, 1227, 1345, 1354,
\* 1370, 1382, 1393, 1416-1421).
SetProperty(prop) ==
    prop \in propertyOptions \cup {<<>>} /\ SetFilters([filters EXCEPT !.property = prop])
SetCategory(cat) ==
    cat \in categoryOptions \cup {""} /\ SetFilters([filters EXCEPT !.category = cat])
SetRentReady(value) == SetFilters([filters EXCEPT !.rentReady = value])
SetSearch(value) == SetFilters([filters EXCEPT !.search = value])
SetRentMin(value) == SetFilters([filters EXCEPT !.rentMin = value])
SetRentMax(value) == SetFilters([filters EXCEPT !.rentMax = value])
SetDateType(value) == SetFilters([filters EXCEPT !.dateRange.dateType = value])
SetDateStart(value) == SetFilters([filters EXCEPT !.dateRange.start = value])
SetDateEnd(value) == SetFilters([filters EXCEPT !.dateRange.end = value])
ToggleProperty(prop) ==
    /\ prop \in propertyOptions
    /\ SetFilters([filters EXCEPT !.properties =
                      IF prop \in @ THEN @ \ {prop} ELSE @ \cup {prop}])

\* The Clear All button (lines 1269-1279).
ClearAll == SetFilters(DefaultFilters)

\* The day of toISOString() for the clock reading: the date in UTC.
utcDay(t) == (t - LocalMinusUtc) \div DayLength

\* applyPresetFilter (lines 808-832)
presetFilters(presetName, f, t) ==
    IF presetName = "Ready This Week"
    THEN [f EXCEPT !.category = "",
                   !.dateRange = [start |-> IsoDate(utcDay(t)),
                                  end |-> IsoDate(utcDay(t + 7 * DayLength)),
                                  dateType |-> "estimated"]]
    ELSE [f EXCEPT !.category = "", !.showFlaggedOnly = TRUE]
ApplyPresetFilter(presetName) == SetFilters(presetFilters(presetName, filters, now))

\* Faulty variant of handleSort: a click on the current column in direction
\* 'desc' keeps the direction.
handleSortStaysDescending(sc, key) ==
    [key |-> key,
     direction |-> IF sc.key = key THEN "desc" ELSE "asc"]

\* handleSort (lines 776-782): the value setSortConfig is called with.
handleSort(sc, key) ==
    [key |-> key,
     direction |-> IF sc.key = key /\ sc.direction = "asc" THEN "desc" ELSE "asc"]

\* handleSort from a column header (line 1460), counted among the changes
\* that are followed.
HandleSort(key) ==
    /\ steps < MaxSteps
    /\ DashboardShown
    /\ sortConfig' = handleSort(sortConfig, key)
    /\ steps' = steps + 1
    /\ UNCHANGED <<file, processing, error, cleanedData, showDashboard, downloadUrl,
                   filters, calls, callFile, saved, dataFile, errorFile, runs>>
    /\ UNCHANGED loopVars

\* handleSort from a column header (line 1460), any number of times.
SortClick(key) ==
    /\ DashboardShown
    /\ sortConfig' = handleSort(sortConfig, key)
    /\ UNCHANGED <<file, processing, error, cleanedData, showDashboard, downloadUrl,
                   filters, calls, callFile, saved, dataFile, errorFile, runs, steps>>
    /\ UNCHANGED loopVars

\* Faulty variant of ExportToExcel: the dataset is replaced by the exported
\* list.
ExportToExcelInPlace ==
    /\ DashboardShown
    /\ downloadUrl.isNull
    /\ downloadUrl' = UrlOf(exportData(sortedAndFilteredData.units))
    /\ cleanedData' = Data(sortedAndFilteredData.units)
    /\ UNCHANGED <<file, processing, error, showDashboard, filters, sortConfig,
                   calls, callFile, saved, dataFile, errorFile, runs, steps>>
    /\ UNCHANGED loopVars

\* exportToExcel (lines 598-654) behind the Prepare Excel Export button,
\* which is there while downloadUrl is null (lines 1060-1066).
ExportToExcel ==
    /\ DashboardShown
    /\ downloadUrl.isNull
    /\ downloadUrl' = exportToExcel(cleanedData, filters, sortConfig, downloadUrl)
    /\ UNCHANGED <<file, processing, error, cleanedData, showDashboard, filters, sortConfig,
                   calls, callFile, saved, dataFile, errorFile, runs, steps>>
    /\ UNCHANGED loopVars

\* The Download Excel link (lines 1068-1074): the browser saves the workbook.
DownloadExcel ==
    /\ DashboardShown
    /\ ~downloadUrl.isNull
    /\ saved' = downloadUrl
    /\ UNCHANGED <<file, processing, error, cleanedData, showDashboard, downloadUrl, filters,
                   sortConfig, calls, callFile, dataFile, errorFile, runs, steps>>
    /\ UNCHANGED loopVars

\* generatePDF (lines 378-596): it writes a document into a new window and
\* sets no state of the component.
GeneratePDF ==
    /\ DashboardShown
    /\ UNCHANGED appVars
    /\ UNCHANGED loopVars

----------------------------------------------------------------------------
(* Cells and grids the specifications draw from *)

s101 == <<"1","0","1">>
sA12 == <<"A","-","1","2">>
sPadded == <<" ","1","0","2"," ">>
sGrandTotal == <<"G","r","a","n","d"," ","T","o","t","a","l">>
sTotalCode == <<"T","O","T","A","L","-","1">>
sUnitHash == <<"U","n","i","t"," ","#">>
sBlank == <<" ">>
sUnitType == <<"0","0","1","4","t","1","1","c">>
sTwoBed == <<"2"," ","B","e","d","r","o","o","m">>
sBachelor == <<"B","a","c","h","e","l","o","r">>
sModelSuite == <<"M","o","d","e","l"," ","S","u","i","t","e">>
sResidential == <<"R","e","s","i","d","e","n","t","i","a","l">>
sOnHold == <<"o","n"," ","H","O","L","D">>
sDowntown == <<"D","o","w","n","t","o","w","n"," ","v","i","e","w">>
sMoveIn == <<"2","0","2","5","-","0","1","-","0","1">>
sYesCap == <<"Y","e","s">>
sNo == <<"n","o">>
sTBD == <<"T","B","D">>
sJan10 == <<"1","/","1","0","/","2","0","2","4">>
sDec25 == <<"1","2","/","2","5","/","2","0","2","3">>
sJan15 == <<"1","/","1","5","/","2","0","2","4">>
sJan31 == <<"1","/","3","1","/","2","0","2","4">>
sFeb1 == <<"2","/","1","/","2","0","2","4">>
sMar1 == <<"3","/","1","/","2","0","2","4">>
sMar2 == <<"3","/","2","/","2","0","2","4">>
sBadDate == <<"a","/","b","/","c">>
sIsoDate == <<"2","0","2","4","-","0","1","-","1","5">>
sDollars == <<"$","1",",","2","0","0">>
sRentText == <<"1","2","0","0",".","5","0">>
sTitle == <<"R","e","n","t"," ","R","e","a","d","y"," ","R","e","p","o","r","t">>

\* 2024-01-01 00:00, in hours
Jan1 == DayLength * DaysFromCivil(2024, 1, 1)
Jan10 == DayLength * DaysFromCivil(2024, 1, 10)
Jan15 == DayLength * DaysFromCivil(2024, 1, 15)

\* Clock readings at the start: midnight, and late enough in the day for the
\* next readings to fall on either side of midnight.
ClockPool == {Jan1, Jan1 + 22}

\* A 15-cell row (columns A..O); the pass-through columns E, F, H, J, N are empty.
MkRow(c0, c1, c2, c3, c6, c8, c10, c11, c12, c14) ==
    <<c0, c1, c2, c3, EmptyStr, EmptyStr, c6, EmptyStr, c8, EmptyStr,
      c10, c11, c12, EmptyStr, c14>>

TitleRow == <<Str(sTitle)>>
BlankRow == [k \in 1..15 |-> EmptyStr]
GoodRow ==
    MkRow(Str(s101), Str(sUnitType), Str(sTwoBed), Str(sResidential), EmptyStr,
          Num(120000), Str(sJan15), Str(sNo), EmptyStr, EmptyStr)

\* Six leading rows: titles only, a unit row in the last of them, unit rows only.
TitleRows == [k \in 1..6 |-> TitleRow]
HeaderPool ==
    { TitleRows,
      [k \in 1..6 |-> IF k = 6 THEN GoodRow ELSE TitleRow],
      [k \in 1..6 |-> GoodRow] }

RentalTypePool == {Str(sResidential), Str(sModelSuite)}
CommentsPool == {EmptyStr, Str(sOnHold)}
MoveInPool == {EmptyStr, Str(sBlank), Str(sMoveIn)}
RentReadyPool == {EmptyStr, Str(sYesCap), Str(sNo)}
ActualPool == {EmptyStr, Str(sBlank), Str(sTBD), Str(sJan10), DateAt(Jan10)}
EstimatedPool ==
    {EmptyStr, Str(sDec25), Str(sJan15), Str(sJan31), Str(sFeb1), Str(sMar1),
     Str(sMar2), Str(sBadDate), DateAt(Jan15)}

\* Rows that differ in the cells the classifier reads.
ClassifyRows ==
    { MkRow(Str(s101), Str(sUnitType), Str(sTwoBed), c3, c6, Num(120000), c10, c11, c12, c14) :
        c3 \in RentalTypePool, c6 \in MoveInPool, c10 \in EstimatedPool,
        c11 \in RentReadyPool, c12 \in ActualPool, c14 \in CommentsPool }

FirstCellPool ==
    {EmptyStr, Str(sBlank), Str(s101), Str(sA12), Str(sPadded), Str(sGrandTotal),
     Str(sTotalCode), Str(sUnitHash), Num(10200), Num(0)}
UnitTypePool == {EmptyStr, Str(sBlank), Str(sUnitType)}
DescriptionPool == {EmptyStr, Str(sBlank), Str(sTwoBed)}
RentPool ==
    {EmptyStr, Num(120000), Num(0), Num(50), Num(-5000), Str(sDollars), Str(sRentText)}

\* Rows that differ in the cells the row filter reads, whole and cut short.
AdmissionRows ==
    LET whole == { MkRow(c0, c1, c2, c3, EmptyStr, c8, Str(sIsoDate), Str(sNo), EmptyStr, c14) :
                     c0 \in FirstCellPool, c1 \in UnitTypePool, c2 \in DescriptionPool,
                     c3 \in {EmptyStr, Num(500)}, c8 \in RentPool, c14 \in {EmptyStr, Num(700)} }
    IN  whole \cup { SubSeq(r, 1, n) : r \in whole, n \in 0..3 }

\* Rows that differ in the unit-type cell, from which the property is taken.
sAB == <<"A","B">>
sOtherType == <<"2","2","b","x">>
sPadded007X == <<" ","0","0","7","X"," ">>
sZeros == <<"0","0","0">>
sZeroA == <<"0","a">>
s14 == <<"1","4">>
s14T9 == <<"1","4","T","9">>
sDashed == <<"5","-","b">>
PropertyTypePool ==
    {Str(sUnitType), Str(sOtherType), Str(sAB), Str(sPadded007X), Str(sZeros), Str(sZeroA),
     Str(s14), Str(s14T9), Str(sDashed), Num(1400), Num(0), EmptyStr}
PropertyRows ==
    { MkRow(Str(sA12), c1, Str(sTwoBed), Str(sResidential), EmptyStr, Num(120000),
            Str(sJan15), Str(sNo), EmptyStr, EmptyStr) : c1 \in PropertyTypePool }

\* Six title rows and one row under test.
InitUnit ==
    /\ \/ /\ \E r \in ClassifyRows : jsonData = TitleRows \o <<r>>
          /\ now \in ClockPool
       \/ /\ \E r \in AdmissionRows \cup PropertyRows : jsonData = TitleRows \o <<r>>
          /\ now = Jan1 + 10
    /\ i = LoopStart
    /\ cleanedUnits = <<>>
    /\ pc = "loop"
    /\ srcIndex = <<>>
    /\ clockReads = <<>>
    /\ Processing(jsonData)

SpecUnit == InitUnit /\ [][Next]_vars

\* Rows of the multi-row grids: a unit not yet ready, a ready unit, a
\* subtotal row, a blank row, a property-header row, a unit whose rental-type
\* cell is a number, a unit with a negative rent, and a unit without
\* description whose rent cell is currency text.
ReadyRow ==
    MkRow(Str(sA12), Str(sUnitType), Str(sBachelor), Str(sResidential), EmptyStr,
          Num(95000), EmptyStr, Str(sYesCap), Str(sJan10), EmptyStr)
TotalRow == <<Str(sGrandTotal), EmptyStr, EmptyStr, EmptyStr, EmptyStr, EmptyStr,
              EmptyStr, EmptyStr, Num(215000)>>
PropertyHeaderRow == <<Str(sA12)>>
NumericTypeRow ==
    MkRow(Str(sPadded), Str(sUnitType), Str(sTwoBed), Num(500), EmptyStr,
          Num(120000), Str(sFeb1), Str(sNo), EmptyStr, EmptyStr)
NegativeRentRow ==
    MkRow(Num(10200), Str(sUnitType), Str(sTwoBed), Str(sModelSuite), EmptyStr,
          Num(-5000), EmptyStr, Str(sYesCap), EmptyStr, EmptyStr)
DollarRow ==
    MkRow(Str(s101), Str(sUnitType), EmptyStr, EmptyStr, Str(sMoveIn),
          Str(sDollars), Str(sBadDate), Str(sNo), EmptyStr, EmptyStr)
GridRowPool ==
    {GoodRow, ReadyRow, TotalRow, BlankRow, PropertyHeaderRow, NumericTypeRow,
     NegativeRentRow, DollarRow}

\* At most MaxDataRows rows follow the six leading rows.
MaxDataRows == 2

\* Grids too short to hold a data row.
ShortGrids == {<<>>, SubSeq(TitleRows, 1, 3), [k \in 1..5 |-> GoodRow]}

Grids ==
    ShortGrids \cup
    { h \o d : h \in HeaderPool,
               d \in UNION {[1..n -> GridRowPool] : n \in 0..MaxDataRows} }

\* The state in which cleanAndProcessData enters its loop.
Init ==
    /\ jsonData \in Grids
    /\ i = LoopStart
    /\ cleanedUnits = <<>>
    /\ pc = "loop"
    /\ now \in ClockPool
    /\ srcIndex = <<>>
    /\ clockReads = <<>>
    /\ Processing(jsonData)

Spec == Init /\ [][Next]_vars

----------------------------------------------------------------------------
(* The component from the upload form on *)

sB7 == <<"B","-","7">>
sB8 == <<"B","-","8">>
sB9 == <<"B","-","9">>
sC1 == <<"C","-","1">>
sC2 == <<"C","-","2">>
sPenthouse == <<"P","e","n","t","h","o","u","s","e">>
sBed == <<"b","e","d">>
sNoMatch == <<"z","z">>
sIsoJan10 == <<"2","0","2","4","-","0","1","-","1","0">>
sIsoJan20 == <<"2","0","2","4","-","0","1","-","2","0">>

\* The files the user selects: two reports (one with a subtotal row), a
\* report whose second unit row
\* makes categorizeUnit throw, a file that is no workbook, and the export
\* saved last.
ReportFile == WorkbookFile("report", TitleRows \o <<ReadyRow>>)
OtherFile == WorkbookFile("other", TitleRows \o <<TotalRow, GoodRow>>)
ThrowingFile == WorkbookFile("throwing", TitleRows \o <<GoodRow, NumericTypeRow>>)
Files ==
    {ReportFile, OtherFile, ThrowingFile, CorruptFile("corrupt")}
    \cup (IF saved.isNull THEN {} ELSE {ExportFile(saved)})

\* The component after it is mounted (lines 25-47): nothing is selected and
\* no call runs.
InitApp ==
    /\ jsonData = <<>>
    /\ i = 0
    /\ cleanedUnits = <<>>
    /\ pc = "idle"
    /\ now = Jan1 + 10
    /\ srcIndex = <<>>
    /\ clockReads = <<>>
    /\ file = NoFile
    /\ processing = FALSE
    /\ error = ""
    /\ cleanedData = NoData
    /\ showDashboard = FALSE
    /\ downloadUrl = NoUrl
    /\ filters = DefaultFilters
    /\ sortConfig = DefaultSort
    /\ calls = {}
    /\ callFile = NoFile
    /\ saved = NoUrl
    /\ dataFile = NoFile
    /\ errorFile = NoFile
    /\ runs = 0
    /\ steps = 0

NextApp ==
    \/ \E f \in Files : HandleFileUpload(f)
    \/ HandleProcess
    \/ \E c \in calls : ReadResolved(c)
    \/ \E c \in calls : ReadFailed(c)
    \/ SkipRow
    \/ PushRow
    \/ ThrowRow
    \/ ReturnUnits
    \/ ProcessDone
    \/ ProcessThrew
    \/ ProcessNewFile
    \/ ExportToExcel
    \/ DownloadExcel
    \/ GeneratePDF

SpecApp == InitApp /\ [][NextApp]_vars

\* The steps the user does not take: the promise of file.arrayBuffer()
\* settles, and the code behind the await runs to its end.
SystemStep ==
    \/ \E c \in calls : ReadResolved(c)
    \/ \E c \in calls : ReadFailed(c)
    \/ SkipRow
    \/ PushRow
    \/ ThrowRow
    \/ ReturnUnits
    \/ ProcessDone
    \/ ProcessThrew

\* The component with a browser that settles every promise and runs every
\* continuation.
SpecAppFair == SpecApp /\ WF_vars(SystemStep)

----------------------------------------------------------------------------
(* The dashboard over a stored dataset *)

\* Unit rows of the datasets: a unit with a rent above the sliders' range, a
\* unit whose job code is a number, a unit whose description is a number,
\* and units of one category that differ in bedrooms and rent.
HighRentRow ==
    MkRow(Str(sB7), Str(sOtherType), Str(sTwoBed), Str(sResidential), EmptyStr,
          Num(600000), Str(sJan15), Str(sNo), EmptyStr, EmptyStr)
JobCodeRow ==
    [MkRow(Str(sB8), Str(sUnitType), Str(sTwoBed), Str(sResidential), EmptyStr,
           Num(110000), Str(sJan15), Str(sNo), EmptyStr, EmptyStr) EXCEPT ![14] = Num(440000)]
NumericDescriptionRow ==
    MkRow(Str(sB9), Str(sUnitType), Num(200), Str(sResidential), EmptyStr,
          Num(100000), Str(sJan15), Str(sNo), EmptyStr, EmptyStr)
PenthouseRow ==
    MkRow(Str(sC1), Str(sUnitType), Str(sPenthouse), Str(sResidential), EmptyStr,
          Num(90000), Str(sJan15), Str(sNo), EmptyStr, EmptyStr)
BachelorRow ==
    MkRow(Str(sC2), Str(sUnitType), Str(sBachelor), Str(sResidential), EmptyStr,
          Num(130000), Str(sJan15), Str(sNo), EmptyStr, EmptyStr)
CheapRow ==
    MkRow(Str(sA12), Str(sOtherType), Str(sTwoBed), Str(sResidential), EmptyStr,
          Num(100000), Str(sJan15), Str(sNo), EmptyStr, EmptyStr)

\* The unit rows of the reports behind the datasets.
ViewLists ==
    { <<GoodRow, ReadyRow, NegativeRentRow>>,
      <<PenthouseRow, GoodRow, BachelorRow, CheapRow>>,
      <<HighRentRow, ReadyRow>>,
      <<JobCodeRow, ReadyRow>>,
      <<NumericDescriptionRow, GoodRow>>,
      <<GoodRow, GoodRow>> }

\* The values the controls are set to.
RentReadyPool2 == {<<>>, sYes, sNo}
SearchPool == {<<>>, sBed, sNoMatch}
RentMinPool == {0, 1000}
RentMaxPool == {1000, 5000}
DatePool == {<<>>, sIsoJan10, sIsoJan20}
SortKeys == {"unitCode", "askingRent"}

\* The component after processFile has stored the units of a report read at
\* 10:00 on 2024-01-01.
InitView ==
    /\ \E rows \in ViewLists :
          /\ jsonData = TitleRows \o rows
          /\ cleanedUnits = [k \in 1..Len(rows) |-> unitOf(rows[k], Jan1 + 10, Jan1 + 10)]
          /\ srcIndex = [k \in 1..Len(rows) |-> LoopStart + k - 1]
          /\ clockReads = [k \in 1..Len(rows) |-> <<Jan1 + 10, Jan1 + 10>>]
    /\ i = Len(jsonData)
    /\ pc = "idle"
    /\ now = Jan1 + 10
    /\ file = WorkbookFile("report", jsonData)
    /\ processing = FALSE
    /\ error = ""
    /\ cleanedData = Data(cleanedUnits)
    /\ showDashboard = TRUE
    /\ downloadUrl = NoUrl
    /\ filters = DefaultFilters
    /\ sortConfig = DefaultSort
    /\ calls = {}
    /\ callFile = file
    /\ saved = NoUrl
    /\ dataFile = file
    /\ errorFile = NoFile
    /\ runs = 1
    /\ steps = 0

NextView ==
    \/ \E prop \in propertyOptions \cup {<<>>} : SetProperty(prop)
    \/ \E prop \in propertyOptions : ToggleProperty(prop)
    \/ \E cat \in categoryOptions \cup {""} : SetCategory(cat)
    \/ \E value \in RentReadyPool2 : SetRentReady(value)
    \/ \E value \in SearchPool : SetSearch(value)
    \/ \E value \in RentMinPool : SetRentMin(value)
    \/ \E value \in RentMaxPool : SetRentMax(value)
    \/ \E value \in {"estimated", "actual"} : SetDateType(value)
    \/ \E value \in DatePool : SetDateStart(value)
    \/ \E value \in DatePool : SetDateEnd(value)
    \/ ClearAll
    \/ \E presetName \in {"Ready This Week", "Flagged Units"} : ApplyPresetFilter(presetName)
    \/ \E key \in SortKeys : HandleSort(key)
    \/ ExportToExcel
    \/ GeneratePDF

SpecView == InitView /\ [][NextView]_vars

----------------------------------------------------------------------------
(* The sort of the table through the life of the component *)

\* From the dashboard of a dataset: clicks on column headers, the operations
\* that reset filters, and the way back through the upload form to the
\* dashboard of another file.
NextSort ==
    \/ \E key \in SortKeys : SortClick(key)
    \/ ClearAll
    \/ \E presetName \in {"Ready This Week", "Flagged Units"} : ApplyPresetFilter(presetName)
    \/ ProcessNewFile
    \/ \E f \in Files : HandleFileUpload(f)
    \/ HandleProcess
    \/ SystemStep

\* The dashboard of the report with the units B-7 and A-12.
InitSort == InitView /\ jsonData = TitleRows \o <<HighRentRow, ReadyRow>>

SpecSort == InitSort /\ [][NextSort]_vars

\* The user goes on: every operation that stays possible is taken, and the
\* browser settles every promise.
SpecSortFair ==
    /\ SpecSort
    /\ WF_vars(SystemStep)
    /\ WF_vars(ClearAll)
    /\ WF_vars(\E presetName \in {"Ready This Week", "Flagged Units"} :
                  ApplyPresetFilter(presetName))
    /\ WF_vars(ProcessNewFile)
    /\ WF_vars(HandleProcess)
    /\ WF_vars(\E f \in Files : HandleFileUpload(f) /\ f # file)


----------------------------------------------------------------------------
(* Properties *)

\* The indices of the records pushed so far, and the clock readings of a
\* record's categorizeUnit and calculateDaysUntilReady calls.
Recs == 1..Len(cleanedUnits)
CategorizedAt(k) == clockReads[k][1]
DaysReadAt(k) == clockReads[k][2]

Categories ==
    {"Down/Hold/Model/Development", "Already Rented", "Available & Rent Ready",
     "Available & Rent Ready (Flagged)", "Available in Next 30 Days",
     "Available in Next 31-60 Days", "Available in More than 60 Days", "Unknown"}

\* C1: cleanAndProcessData returns a list of records for every grid of
\* strings, numbers and empty cells; it never throws, so a malformed cell
\* costs at most its own row.
C1_NeverThrows == pc # "threw"

\* C2: the category of every record is one of the 8 category strings, also
\* when its estimated ready date is an Invalid Date.
C2_CategoryTotal ==
    \A k \in Recs : cleanedUnits[k].category \in Categories

\* A record whose estimated ready date is an Invalid Date and that reached
\* the day buckets.
C2_InvalidDateCategorized ==
    \E k \in Recs :
        /\ cleanedUnits[k].estimatedReadyDate = InvalidDate
        /\ cleanedUnits[k].category = "Available in More than 60 Days"

\* The text of a field contains one of the four keywords, whatever the case.
HasKeyword(v) ==
    /\ v.t = "str"
    /\ {kw \in {kwDevelopment, kwModel, kwHold, kwDown} :
            includes(toLowerCase(v.s), kw)} # {}

\* The categories the decision list of C3 allows for a record.
ReferenceCategories(u) ==
    IF HasKeyword(u.rentalType) \/ HasKeyword(u.comments)
    THEN {"Down/Hold/Model/Development"}
    ELSE IF trim(toString(u.futureMoveInDate)) # <<>>
    THEN {"Already Rented"}
    ELSE IF u.rentReady = Str(sYes)
    THEN IF u.actualReadyDate # EmptyStr
         THEN {"Available & Rent Ready"}
         ELSE {"Available & Rent Ready (Flagged)"}
    ELSE IF u.estimatedReadyDate # Null
    THEN {"Available in Next 30 Days", "Available in Next 31-60 Days",
          "Available in More than 60 Days"}
    ELSE {"Unknown"}

\* C3: the category of every record is the one the first matching rule of
\* the decision list gives: keyword, future move-in, rent ready (flagged
\* without an actual ready date), estimated date, Unknown.
C3_FirstMatchWins ==
    \A k \in Recs : cleanedUnits[k].category \in ReferenceCategories(cleanedUnits[k])

\* A model suite that is rent ready with an actual ready date and still
\* categorized by the keyword rule.
C3_KeywordBeforeReady ==
    \E k \in Recs :
        /\ cleanedUnits[k].rentalType = Str(sModelSuite)
        /\ cleanedUnits[k].rentReady = Str(sYes)
        /\ cleanedUnits[k].actualReadyDate = Str(sJan10)
        /\ cleanedUnits[k].futureMoveInDate = Str(sMoveIn)
        /\ cleanedUnits[k].category = "Down/Hold/Model/Development"

\* The record reaches rule 4 with a valid estimated ready date.
ReachesRule4(u) ==
    /\ ~HasKeyword(u.rentalType)
    /\ ~HasKeyword(u.comments)
    /\ trim(toString(u.futureMoveInDate)) = <<>>
    /\ u.rentReady # Str(sYes)
    /\ u.estimatedReadyDate.t = "date"

\* ceil((estimatedReadyDate - today) / 1 day), today being the reading of
\* the clock categorizeUnit took.
EstimatedDiffDays(k) ==
    CeilDiv(cleanedUnits[k].estimatedReadyDate.n - CategorizedAt(k), DayLength)

\* C4: a unit that reaches rule 4 is 'Available in Next 30 Days' when
\* diffDays <= 30 (negative values included), 'Available in Next 31-60 Days'
\* when 31 <= diffDays <= 60, 'Available in More than 60 Days' when
\* diffDays >= 61.
C4_DayBuckets ==
    \A k \in Recs :
        ReachesRule4(cleanedUnits[k]) =>
            /\ EstimatedDiffDays(k) <= 30 =>
                  cleanedUnits[k].category = "Available in Next 30 Days"
            /\ EstimatedDiffDays(k) \in 31..60 =>
                  cleanedUnits[k].category = "Available in Next 31-60 Days"
            /\ EstimatedDiffDays(k) >= 61 =>
                  cleanedUnits[k].category = "Available in More than 60 Days"

\* A unit exactly 30 days from ready, in the first bucket.
C4_Day30InFirstBucket ==
    \E k \in Recs :
        /\ ReachesRule4(cleanedUnits[k])
        /\ EstimatedDiffDays(k) = 30
        /\ cleanedUnits[k].category = "Available in Next 30 Days"

\* The three checks of hasIssues, `moveIn` telling whether the record counts
\* as having a future move-in date.
ThreeChecks(u, moveIn) ==
    \/ u.rentReady = Str(sYes) /\ u.actualReadyDate \in {EmptyStr, Null}
    \/ moveIn /\ u.rentReady # Str(sYes)
    \/ u.category = "Down/Hold/Model/Development" /\ u.rentReady = Str(sYes)

\* C5 as stated: hasIssues is the OR of (rent ready without actual ready
\* date), (futureMoveInDate non-empty and not rent ready), (down/hold/model
\* category and rent ready).
C5_IssuesAsStated ==
    \A k \in Recs :
        cleanedUnits[k].hasIssues
            <=> ThreeChecks(cleanedUnits[k], cleanedUnits[k].futureMoveInDate # EmptyStr)

\* C5, amended: the same OR, the second check reading futureMoveInDate as
\* non-empty after trimming, so that a whitespace-only move-in date raises
\* no issue.
C5_IssuesTrimmed ==
    \A k \in Recs :
        cleanedUnits[k].hasIssues
            <=> ThreeChecks(cleanedUnits[k],
                            trim(toString(cleanedUnits[k].futureMoveInDate)) # <<>>)

\* A unit that is not rent ready, whose move-in date is whitespace, without
\* issues.
C5_BlankMoveInNoIssue ==
    \E k \in Recs :
        /\ cleanedUnits[k].futureMoveInDate = Str(sBlank)
        /\ cleanedUnits[k].rentReady = Str(sNo)
        /\ ~cleanedUnits[k].hasIssues

\* The value can be coerced to a date: it is a valid Date, or new Date(value)
\* is one.
Coercible(v) ==
    IF v.t \in {"date", "baddate"} THEN v.t = "date" ELSE NewDateOf(v).t = "date"

\* No usable date under the selection rule.
NoUsableDate(u) ==
    /\ \/ u.rentReady # Str(sYes)
       \/ u.actualReadyDate \in {EmptyStr, Null}
       \/ ~Coercible(u.actualReadyDate)
    /\ u.estimatedReadyDate.t # "date"

\* A JS number that is an integer (numbers are kept in hundredths).
IsInteger(v) == v.t = "num" /\ v.n % 100 = 0

\* C6: daysUntilReady of every record is null exactly when no usable date
\* was available (not rent ready, or actual ready date empty or not
\* coercible, and estimated ready date absent or invalid), and an integer in
\* every other case.
C6_NullIffNoUsableDate ==
    \A k \in Recs :
        IF NoUsableDate(cleanedUnits[k])
        THEN cleanedUnits[k].daysUntilReady = Null
        ELSE IsInteger(cleanedUnits[k].daysUntilReady)

\* The date the selection rule of C7 chooses.
ChosenDate(u) ==
    IF u.rentReady = Str(sYes) /\ u.actualReadyDate # EmptyStr /\ Coercible(u.actualReadyDate)
    THEN IF u.actualReadyDate.t = "date" THEN u.actualReadyDate
         ELSE NewDateOf(u.actualReadyDate)
    ELSE u.estimatedReadyDate

\* The clock reading falls on 2024-01-01.
OnJan1(t) == t \in Jan1..(Jan1 + DayLength - 1)

\* C7: daysUntilReady is ceil((chosen date - today) / 1 day), the chosen
\* date being the actual ready date of a rent-ready unit when it is
\* non-empty and coercible, and the estimated ready date otherwise; on
\* 2024-01-01 an estimated date of 2024-01-15 gives 14 and a rent-ready unit
\* with actual date 2024-01-10 gives 9.
C7_DaysFromChosenDate ==
    \A k \in Recs :
        /\ ChosenDate(cleanedUnits[k]).t = "date" =>
              cleanedUnits[k].daysUntilReady =
                  Int2Num(CeilDiv(ChosenDate(cleanedUnits[k]).n - DaysReadAt(k), DayLength))
        /\ ChosenDate(cleanedUnits[k]) = Null => cleanedUnits[k].daysUntilReady = Null
        /\ ( /\ OnJan1(DaysReadAt(k))
             /\ cleanedUnits[k].rentReady # Str(sYes)
             /\ cleanedUnits[k].estimatedReadyDate = DateAt(Jan15) ) =>
              cleanedUnits[k].daysUntilReady = Int2Num(14)
        /\ ( /\ OnJan1(DaysReadAt(k))
             /\ cleanedUnits[k].rentReady = Str(sYes)
             /\ cleanedUnits[k].actualReadyDate \in {Str(sJan10), DateAt(Jan10)} ) =>
              cleanedUnits[k].daysUntilReady = Int2Num(9)

\* A rent-ready unit with actual ready date 1/10/2024 and estimated ready
\* date 1/15/2024, processed on 2024-01-01: 9 days.
C7_ActualDateUsed ==
    \E k \in Recs :
        /\ OnJan1(DaysReadAt(k))
        /\ cleanedUnits[k].rentReady = Str(sYes)
        /\ cleanedUnits[k].actualReadyDate = Str(sJan10)
        /\ cleanedUnits[k].estimatedReadyDate = DateAt(Jan15)
        /\ cleanedUnits[k].daysUntilReady = Int2Num(9)

\* The status C8 gives a category.
ReferenceStatus(category) ==
    CASE category = "Already Rented" -> "Rented"
      [] category = "Down/Hold/Model/Development" -> "Not Available"
      [] category = "Available & Rent Ready" -> "Ready Now"
      [] OTHER -> "Future"

\* C8: the status of every record is the one its category alone determines:
\* Rented, Not Available, Ready Now, and Future for every other category.
C8_StatusFromCategory ==
    \A k \in Recs : cleanedUnits[k].status = ReferenceStatus(cleanedUnits[k].category)

\* A flagged rent-ready unit, whose status is Future.
C8_FlaggedIsFuture ==
    \E k \in Recs :
        /\ cleanedUnits[k].category = "Available & Rent Ready (Flagged)"
        /\ cleanedUnits[k].status = "Future"

\* C9: askingRent of every record is a number >= 0.
C9_RentNeverNegative ==
    \A k \in Recs :
        cleanedUnits[k].askingRent.t = "num" /\ cleanedUnits[k].askingRent.n >= 0

\* The trimmed text of a cell, empty for a missing cell.
CellText(v) == IF v.t \in {"undef", "null"} THEN <<>> ELSE trim(toString(v))

\* The conditions C10 puts on a row's cells.
Admitted(row) ==
    /\ {k \in 1..Len(row) : CellText(row[k]) # <<>>} # {}
    /\ ~includes(toLowerCase(CellText(Cell(row, 0))), sTotal)
    /\ CellText(Cell(row, 0)) # <<>>
    /\ \A k \in 1..Len(CellText(Cell(row, 0))) :
          \/ IsLetter(CellText(Cell(row, 0))[k])
          \/ IsDigit(CellText(Cell(row, 0))[k])
          \/ CellText(Cell(row, 0))[k] = "-"
    /\ CellText(Cell(row, 1)) # <<>>
    /\ \/ CellText(Cell(row, 2)) # <<>>
       \/ parseFloat(Cell(row, 8)).t = "num" /\ parseFloat(Cell(row, 8)).n > 0

\* The row at grid index j has a record in what cleanAndProcessData returns;
\* nothing is returned when it threw.
YieldsRecord(j) == pc # "threw" /\ {k \in Recs : srcIndex[k] = j} # {}

\* C10: a row whose fate is settled (the loop is past it, or the call has
\* ended) yields a record if and only if its index is at least 6 and its
\* cells meet the conditions of admission; the first 6 rows never do.
C10_RecordIffAdmitted ==
    \A j \in 0..(Len(jsonData) - 1) :
        (j < i \/ pc = "threw") =>
            (YieldsRecord(j) <=> (j >= LoopStart /\ Admitted(jsonData[j + 1])))

\* The row a record was built from.
SourceRow(k) == jsonData[srcIndex[k] + 1]

\* The row passes the identifier check and names a unit type.
PassesIdentifierCheck(row) ==
    /\ ~includes(toLowerCase(CellText(Cell(row, 0))), sTotal)
    /\ CellText(Cell(row, 0)) # <<>>
    /\ \A k \in 1..Len(CellText(Cell(row, 0))) :
          \/ IsLetter(CellText(Cell(row, 0))[k])
          \/ IsDigit(CellText(Cell(row, 0))[k])
          \/ CellText(Cell(row, 0))[k] = "-"
    /\ CellText(Cell(row, 1)) # <<>>

\* The cell holds text of the form M/D/Y with numeric parts.
IsMDY(cell) ==
    /\ cell.t = "str"
    /\ Len(split(trim(cell.s), "/")) = 3
    /\ \A k \in 1..3 : AllDigits(split(trim(cell.s), "/")[k])

\* The rent cell holds something that is no number; the date cell holds
\* something that is no M/D/Y date.
UnparseableRent(row) ==
    CellText(Cell(row, 8)) # <<>> /\ parseFloat(Cell(row, 8)).t = "nan"
UnparseableDate(row) ==
    CellText(Cell(row, 10)) # <<>> /\ ~IsMDY(Cell(row, 10))

\* C11: a row past the identifier check whose rent or date cell cannot be
\* parsed still yields a record, with askingRent 0 for the unparseable rent
\* and estimatedReadyDate null for the unparseable date.
C11_UnparseableKept ==
    \A j \in LoopStart..(Len(jsonData) - 1) :
        ( /\ j < i
          /\ pc # "threw"
          /\ PassesIdentifierCheck(jsonData[j + 1])
          /\ UnparseableRent(jsonData[j + 1]) \/ UnparseableDate(jsonData[j + 1]) ) =>
            \E k \in Recs :
                /\ srcIndex[k] = j
                /\ UnparseableRent(jsonData[j + 1]) => cleanedUnits[k].askingRent = Num(0)
                /\ UnparseableDate(jsonData[j + 1]) => cleanedUnits[k].estimatedReadyDate = Null

\* C12: parseDate gives a valid date for an M/D/Y string with numeric parts
\* and null for every other cell, never an Invalid Date.
C12_ValidDateOrNull ==
    \A k \in Recs :
        IF IsMDY(Cell(SourceRow(k), 10))
        THEN cleanedUnits[k].estimatedReadyDate.t = "date"
        ELSE cleanedUnits[k].estimatedReadyDate = Null

\* C13: the records are, one each and in grid order, those of the admitted
\* rows the loop has passed, and the unitCode of each is the trimmed first
\* cell of its row.
C13_OneRecordPerRowInOrder ==
    /\ Len(srcIndex) = Len(cleanedUnits)
    /\ \A k \in Recs :
          /\ srcIndex[k] \in LoopStart..(i - 1)
          /\ Admitted(SourceRow(k))
          /\ cleanedUnits[k].unitCode = Str(CellText(Cell(SourceRow(k), 0)))
    /\ \A k1, k2 \in Recs : k1 < k2 => srcIndex[k1] < srcIndex[k2]
    /\ \A j \in LoopStart..(i - 1) :
          Admitted(jsonData[j + 1]) => {k \in Recs : srcIndex[k] = j} # {}

\* Two different units returned in the order of their rows, below six
\* leading rows that are unit rows themselves.
C13_TwoUnitsInOrder ==
    /\ pc = "done"
    /\ Len(cleanedUnits) = 2
    /\ cleanedUnits[1].unitCode = Str(s101)
    /\ cleanedUnits[2].unitCode = Str(sA12)
    /\ Admitted(jsonData[1])

\* The record keeps the identifier, the rent and the raw fields of an
\* exported row.
RawFieldsMatch(u, row) ==
    /\ u.unitCode = row[1]
    /\ u.unitType = row[2]
    /\ u.unitDescription = row[3]
    /\ u.rentalType = row[4]
    /\ u.vacantAsOf = row[5]
    /\ u.vacateType = row[6]
    /\ u.futureMoveInDate = row[7]
    /\ u.workOrder = row[8]
    /\ u.askingRent = row[9]
    /\ u.makeReadyNotes = row[10]
    /\ u.jobCode = row[14]
    /\ u.comments = row[15]

\* The dataset on screen was extracted from a saved export.
FromExport == showDashboard /\ dataFile.name = "export" /\ ~cleanedData.isNull

\* C14: when a saved export is processed, every unit row of the export (the
\* rows under its header row) has a record with the same unitCode, askingRent
\* and raw fields.
C14_RoundTrip ==
    FromExport =>
        \A k \in 2..Len(dataFile.grid) :
            \E j \in 1..Len(cleanedData.units) :
                RawFieldsMatch(cleanedData.units[j], dataFile.grid[k])

\* C15: the dataset on screen is that of the selected file, and so is the
\* error on the upload form.
C15_ShowsSelectedFile ==
    /\ showDashboard => dataFile = file
    /\ (~showDashboard /\ error # "") => errorFile = file

\* A step in which a call of processFile fails: the file is not read or
\* parsed, or cleanAndProcessData throws.
FailureStep ==
    \/ pc = "threw" /\ pc' = "idle"
    \/ \E c \in calls : ~c.readable /\ calls' = calls \ {c}

\* C16: a failing call of processFile ends with a non-empty error and leaves
\* cleanedData and showDashboard as they are, and while the error is
\* non-empty the dashboard is not shown.
C16_FailureShowsNoDashboard ==
    /\ [](error # "" => ~showDashboard)
    /\ [][FailureStep => /\ error' # ""
                         /\ cleanedData' = cleanedData
                         /\ showDashboard' = showDashboard]_vars

\* A call failed after its loop had pushed a record.
C16_FailedAfterPartialResults ==
    /\ pc = "idle"
    /\ error # ""
    /\ errorFile = ThrowingFile
    /\ Len(cleanedUnits) > 0
    /\ ~processing
    /\ ~showDashboard

\* C17: while the dashboard is shown, no step (a filter change, a preset, a
\* sort click, a PDF generation, an Excel export) changes cleanedData.
C17_CleanedDataUnchanged ==
    [][showDashboard => cleanedData' = cleanedData]_vars

\* A filter and a sort were set and the list, shorter than the dataset, was
\* exported.
C17_FilteredSortedExported ==
    /\ showDashboard
    /\ ~downloadUrl.isNull
    /\ sortConfig.key # ""
    /\ filters # DefaultFilters
    /\ ~sortedAndFilteredData.threw
    /\ Len(sortedAndFilteredData.units) < Len(cleanedData.units)
    /\ Len(downloadUrl.rows) > 1

\* How often u occurs in the list.
Count(list, u) == Cardinality({k \in 1..Len(list) : list[k] = u})

\* The search text occurs, whatever the case, in the text of one of the
\* searched fields.
SearchMatches(u, search) ==
    {k \in 1..6 : includes(toLowerCase(toString(searchFields(u)[k])), toLowerCase(search))} # {}

\* The unit satisfies every filter that is set.
Matches(u, f) ==
    /\ f.property = <<>> \/ includes(toLowerCase(u.property.s), toLowerCase(f.property))
    /\ f.properties = {} \/ u.property.s \in f.properties
    /\ f.category = "" \/ u.category = f.category
    /\ f.rentReady = <<>> \/ u.rentReady = Str(f.rentReady)
    /\ f.search = <<>> \/ SearchMatches(u, f.search)
    /\ ~rentFilterActive(f) \/ rentInRange(u, f)
    /\ ~f.showFlaggedOnly \/ u.hasIssues = TRUE
    /\ f.dateRange.start = <<>> \/ f.dateRange.end = <<>> \/ dateInRange(u, f.dateRange)

\* C18: for the dataset on screen sortedAndFilteredData returns a list (the
\* lists whose sort throws set aside), and each unit of cleanedData occurs in
\* it as often as in cleanedData when it satisfies every filter that is set,
\* and not at all when it does not.
C18_ExactlyTheMatchingUnits ==
    (showDashboard /\ ~sortThrows(filteredList(cleanedData.units, filters), sortConfig)) =>
        /\ ~sortedAndFilteredData.threw
        /\ \A k \in 1..Len(cleanedData.units) :
              Count(sortedAndFilteredData.units, cleanedData.units[k])
                 = IF Matches(cleanedData.units[k], filters)
                   THEN Count(cleanedData.units, cleanedData.units[k])
                   ELSE 0
        /\ Len(sortedAndFilteredData.units) <= Len(cleanedData.units)

\* C19: every unit of the list on screen has rentMin <= askingRent <= rentMax.
C19_ShownWithinRentRange ==
    (showDashboard /\ ~sortedAndFilteredData.threw) =>
        \A k \in 1..Len(sortedAndFilteredData.units) :
            rentInRange(sortedAndFilteredData.units[k], filters)

\* The categories in the order of their rank, and the rank of a category.
CategoriesInOrder ==
    << "Available & Rent Ready", "Available & Rent Ready (Flagged)",
       "Available in Next 30 Days", "Available in Next 31-60 Days",
       "Available in More than 60 Days", "Already Rented",
       "Down/Hold/Model/Development", "Unknown" >>
RankOf(category) == CHOOSE r \in 1..8 : CategoriesInOrder[r] = category

\* a is not greater than b in the three-level order: category rank, then
\* bedroom count, then asking rent.
NotGreater(a, b) ==
    IF RankOf(a.category) # RankOf(b.category) THEN RankOf(a.category) < RankOf(b.category)
    ELSE IF extractBedroomCount(a.unitDescription) # extractBedroomCount(b.unitDescription)
    THEN extractBedroomCount(a.unitDescription) < extractBedroomCount(b.unitDescription)
    ELSE a.askingRent.n <= b.askingRent.n

\* C20: with no explicit sort, of two adjacent units of the returned list the
\* earlier is not greater in the three-level order.
C20_DefaultOrder ==
    (showDashboard /\ sortConfig.key = "" /\ ~sortedAndFilteredData.threw) =>
        \A k \in 1..(Len(sortedAndFilteredData.units) - 1) :
            NotGreater(sortedAndFilteredData.units[k], sortedAndFilteredData.units[k + 1])

\* Four units of one category come out by bedroom count (a bachelor unit
\* first, a unit without bedroom count last) and by rent among the equal.
C20_FourUnitsReordered ==
    /\ showDashboard
    /\ sortConfig.key = ""
    /\ ~sortedAndFilteredData.threw
    /\ Len(sortedAndFilteredData.units) = 4
    /\ sortedAndFilteredData.units # cleanedData.units
    /\ \A k \in 1..4 : sortedAndFilteredData.units[k].category = "Available in Next 30 Days"
    /\ extractBedroomCount(sortedAndFilteredData.units[1].unitDescription) = 0
    /\ extractBedroomCount(sortedAndFilteredData.units[4].unitDescription) = 999
    /\ sortedAndFilteredData.units[2].askingRent.n < sortedAndFilteredData.units[3].askingRent.n

\* C21: with an explicit sort key the returned list holds the units the
\* filters select, each as often, and of two adjacent units the later is not
\* smaller in that field for 'asc' and not greater for 'desc'.
C21_ExplicitOrder ==
    (showDashboard /\ sortConfig.key # "" /\ ~sortedAndFilteredData.threw) =>
        /\ \A k \in 1..Len(cleanedData.units) :
              Count(sortedAndFilteredData.units, cleanedData.units[k])
                 = Count(filteredList(cleanedData.units, filters), cleanedData.units[k])
        /\ Len(sortedAndFilteredData.units) = Len(filteredList(cleanedData.units, filters))
        /\ \A k \in 1..(Len(sortedAndFilteredData.units) - 1) :
              IF sortConfig.direction = "asc"
              THEN ~jsLess(sortValue(sortedAndFilteredData.units[k + 1], sortConfig.key),
                           sortValue(sortedAndFilteredData.units[k], sortConfig.key))
              ELSE ~jsLess(sortValue(sortedAndFilteredData.units[k], sortConfig.key),
                           sortValue(sortedAndFilteredData.units[k + 1], sortConfig.key))

\* Four units of one category are listed by falling rent, which is neither
\* the order of the dataset nor the default order.
C21_DescendingRent ==
    /\ showDashboard
    /\ sortConfig = [key |-> "askingRent", direction |-> "desc"]
    /\ ~sortedAndFilteredData.threw
    /\ Len(sortedAndFilteredData.units) = 4
    /\ \A k \in 1..3 : sortedAndFilteredData.units[k].askingRent.n
                          > sortedAndFilteredData.units[k + 1].askingRent.n
    /\ sortedAndFilteredData.units # cleanedData.units
    /\ sortedAndFilteredData.units # sorted(cleanedData.units, DefaultSort)

\* The texts of the header row.
HeaderTexts ==
    << "Unit Code", "Unit Type", "Unit Description", "Rental Type", "Vacant As Of",
       "Vacate Type", "Future Move In Date", "Work Order", "Asking Rent",
       "Make Ready Notes", "Estimated Ready Date", "Rent Ready", "Actual Ready Date",
       "Job Code", "Comments", "Property", "Category", "Status", "Days Until Ready",
       "Has Issues" >>

\* The rows are the header and then, in order, one row of 20 cells for each
\* unit of the list, with the unit's code, rent, category and status and with
\* hasIssues as Yes or No.
GridOfList(rows, units) ==
    /\ Len(rows) = Len(units) + 1
    /\ Len(rows[1]) = 20
    /\ \A c \in 1..20 : rows[1][c] = Str(<<HeaderTexts[c]>>)
    /\ \A k \in 1..Len(units) :
          /\ Len(rows[k + 1]) = 20
          /\ rows[k + 1][1] = units[k].unitCode
          /\ rows[k + 1][9] = units[k].askingRent
          /\ rows[k + 1][17] = Str(<<units[k].category>>)
          /\ rows[k + 1][18] = Str(<<units[k].status>>)
          /\ rows[k + 1][20] = IF units[k].hasIssues = TRUE THEN Str(<<"Yes">>) ELSE Str(<<"No">>)

\* C22: a step that prepares an export leaves in downloadUrl the grid of the
\* list sortedAndFilteredData returns (header, then one row of 20 cells per
\* unit in the same order, hasIssues as Yes or No), and exportToExcel without
\* a dataset leaves downloadUrl as it is.
C22_ExportGrid ==
    /\ [][(downloadUrl.isNull /\ ~downloadUrl'.isNull)
            => GridOfList(downloadUrl'.rows, sortedAndFilteredData.units)]_vars
    /\ [](/\ exportToExcel(NoData, filters, sortConfig, downloadUrl) = downloadUrl
          /\ exportToExcel(NoData, filters, sortConfig, NoUrl) = NoUrl)

\* An export of three units in an order that is not that of the dataset,
\* with a unit that has issues and one that has none.
C22_ExportOfThree ==
    /\ ~downloadUrl.isNull
    /\ Len(downloadUrl.rows) = 4
    /\ downloadUrl.rows[2][1] # cleanedData.units[1].unitCode
    /\ \E k \in 2..4 : downloadUrl.rows[k][20] = Str(<<"Yes">>)
    /\ \E k \in 2..4 : downloadUrl.rows[k][20] = Str(<<"No">>)

\* The text without its leading zeros.
RECURSIVE StripZeros(_)
StripZeros(text) ==
    IF text # <<>> /\ Head(text) = "0" THEN StripZeros(Tail(text)) ELSE text

\* The property as stated: of the trimmed text without leading zeros, the
\* leading digits and the letters that follow them, when there is at least
\* one of each; the empty string otherwise, and for an empty cell.
PropertyAsStated(cell) ==
    IF ~Truthy(cell) THEN <<>>
    ELSE LET text == StripZeros(trim(toString(cell)))
             found == {p \in (1..Len(text)) \X (1..Len(text)) :
                         /\ p[1] + p[2] <= Len(text)
                         /\ \A j \in 1..p[1] : IsDigit(text[j])
                         /\ \A j \in (p[1] + 1)..(p[1] + p[2]) : IsLetter(text[j])
                         /\ p[1] + p[2] = Len(text) \/ ~IsLetter(text[p[1] + p[2] + 1])}
         IN  IF found = {} THEN <<>>
             ELSE LET p == CHOOSE q \in found : TRUE IN SubSeq(text, 1, p[1] + p[2])

\* C23: for every unit-type cell of the grid extractPropertyFromUnitType
\* gives the property as stated, every record carries it, and '0014t11c'
\* gives '14t', '' gives '' and 'AB' gives ''.
C23_PropertyAsStated ==
    /\ \A j \in 1..Len(jsonData) :
          extractPropertyFromUnitType(Cell(jsonData[j], 1))
             = PropertyAsStated(Cell(jsonData[j], 1))
    /\ \A k \in Recs :
          cleanedUnits[k].property = Str(PropertyAsStated(Cell(SourceRow(k), 1)))
    /\ \A j \in 1..Len(jsonData) :
          /\ Cell(jsonData[j], 1) = Str(sUnitType)
                => extractPropertyFromUnitType(Cell(jsonData[j], 1)) = <<"1","4","t">>
          /\ Cell(jsonData[j], 1) \in {EmptyStr, Str(sAB)}
                => extractPropertyFromUnitType(Cell(jsonData[j], 1)) = <<>>

\* The record of a unit whose unit type ' 007X ' gives the property '7X'.
C23_TrimmedAndStripped ==
    /\ pc = "done"
    /\ Len(cleanedUnits) = 1
    /\ cleanedUnits[1].unitType = Str(sPadded007X)
    /\ cleanedUnits[1].property = Str(<<"7","X">>)

\* C24: a record of category 'Available & Rent Ready (Flagged)' has
\* hasIssues true, and a record of category 'Available & Rent Ready' has
\* hasIssues false.
C24_FlaggedIffIssues ==
    \A k \in Recs :
        /\ cleanedUnits[k].category = "Available & Rent Ready (Flagged)"
              => cleanedUnits[k].hasIssues = TRUE
        /\ cleanedUnits[k].category = "Available & Rent Ready"
              => cleanedUnits[k].hasIssues = FALSE

\* A rent-ready unit whose actual ready date is blank text: the date counts
\* as given, the category is 'Available & Rent Ready' and no issue is
\* reported.
C24_ReadyWithBlankDate ==
    /\ pc = "done"
    /\ Len(cleanedUnits) = 1
    /\ cleanedUnits[1].category = "Available & Rent Ready"
    /\ cleanedUnits[1].actualReadyDate = Str(sBlank)
    /\ cleanedUnits[1].hasIssues = FALSE

\* The Prepare Excel Export button is on screen (lines 1060-1066).
PrepareButtonShown == DashboardShown /\ downloadUrl.isNull

\* C25: while the dashboard offers a download, the workbook behind the link
\* is the export of the list now shown, or the user can prepare a new
\* export.
C25_DownloadIsCurrent ==
    (DashboardShown /\ ~downloadUrl.isNull) =>
        \/ downloadUrl.rows = exportData(sortedAndFilteredData.units)
        \/ PrepareButtonShown

\* C26: for a record that is not rent ready, has a valid estimated ready
\* date and is in one of the three day buckets, the bucket is the one of its
\* daysUntilReady.
C26_CategoryAgreesWithDays ==
    \A k \in Recs :
        (/\ cleanedUnits[k].rentReady # Str(sYes)
         /\ cleanedUnits[k].estimatedReadyDate.t = "date"
         /\ cleanedUnits[k].category \in
               {"Available in Next 30 Days", "Available in Next 31-60 Days",
                "Available in More than 60 Days"}) =>
            /\ cleanedUnits[k].daysUntilReady.t = "num"
            /\ cleanedUnits[k].category = "Available in Next 30 Days"
                  <=> cleanedUnits[k].daysUntilReady.n <= 30 * 100
            /\ cleanedUnits[k].category = "Available in Next 31-60 Days"
                  <=> (/\ cleanedUnits[k].daysUntilReady.n >= 31 * 100
                       /\ cleanedUnits[k].daysUntilReady.n <= 60 * 100)
            /\ cleanedUnits[k].category = "Available in More than 60 Days"
                  <=> cleanedUnits[k].daysUntilReady.n >= 61 * 100

\* C27: when the dashboard is shown, cleanedData is a list.
C27_DashboardHasData == showDashboard => ~cleanedData.isNull

\* The dashboard is shown after a file was selected while the call that
\* filled it was in flight: the selection had set cleanedData to null.
C27_ShownAfterLateSelection ==
    /\ showDashboard
    /\ ~cleanedData.isNull
    /\ file # dataFile
    /\ file # NoFile
    /\ Len(cleanedData.units) > 0

\* The calls of processFile that have started and not ended.
InFlight == Cardinality(calls) + (IF pc = "idle" THEN 0 ELSE 1)

\* C28: at most one call of processFile is in flight, and processing is true
\* exactly while one is; the step that ends a call leaves either the dashboard
\* shown with a dataset and no error, or an error and no dashboard; and every
\* call ends.
C28_OneRunOneOutcome ==
    /\ [](InFlight <= 1 /\ (processing <=> InFlight = 1))
    /\ [][(processing /\ ~processing') =>
             \/ showDashboard' /\ ~cleanedData'.isNull /\ error' = ""
             \/ ~showDashboard' /\ error' # ""]_vars
    /\ (processing ~> ~processing)

\* Two calls have ended, the first with the dashboard of its dataset, the
\* second, for a file selected while the first was in flight, with an error.
C28_TwoRunsEnded ==
    /\ runs = 2
    /\ ~processing
    /\ InFlight = 0
    /\ error # ""
    /\ ~showDashboard
    /\ ~cleanedData.isNull
    /\ dataFile # errorFile

\* The other direction.
Toggled(direction) == IF direction = "asc" THEN "desc" ELSE "asc"

\* C29: the direction is 'asc' or 'desc'; a click on a column gives that
\* column as key, with the other direction when it was the key already and
\* with 'asc' when it was not; and every step that changes sortConfig is
\* such a click.
C29_SortToggle ==
    /\ [](sortConfig.direction \in {"asc", "desc"})
    /\ [](\A key \in SortKeys :
             handleSort(sortConfig, key) =
                [key |-> key,
                 direction |-> IF sortConfig.key = key
                               THEN Toggled(sortConfig.direction) ELSE "asc"])
    /\ [][sortConfig' # sortConfig =>
             \E key \in SortKeys : sortConfig' = handleSort(sortConfig, key)]_vars

\* The rent column was clicked twice: it is the key, in direction 'desc'.
C29_SecondClick ==
    /\ showDashboard
    /\ sortConfig = [key |-> "askingRent", direction |-> "desc"]

\* C30: after a column header has been clicked, the sort key is null again
\* at some later time.
C30_DefaultOrderReturns ==
    (sortConfig.key # "") ~> (sortConfig.key = "")

=============================================================================
